---- MODULE Spec2Model ----
(***************************************************************************)
(* Pattern model, playback transport and URL codec of the FGDP step        *)
(* sequencer.                                                              *)
(*                                                                         *)
(* Conventions.                                                            *)
(*  - Arrays are functions over 0..n-1, so indices are the source's.       *)
(*  - `undefined` finger is the record undefinedFinger; an optional        *)
(*    velocity is a set with at most one element; `null` is Null.          *)
(*  - A string that the codec reads or writes is a sequence: a name is a   *)
(*    sequence of code points, a URL parameter a sequence of characters.   *)
(*  - Time is counted in units of 1/UnitsPerSecond seconds.  The BPM       *)
(*    inputs are chosen so that every step duration is a whole number of   *)
(*    units; all time arithmetic is exact (no floating-point rounding).    *)
(*  - Tone.Transport / Tone.Draw are modelled by their contract: a clock   *)
(*    with a readable/writable position that stop() rewinds to 0, one      *)
(*    timeline of repeating events, each due at its start time and every   *)
(*    interval after it, and a FIFO of frame-deferred callbacks.           *)
(***************************************************************************)
EXTENDS Integers, Sequences, FiniteSets, TLC

VARIABLES
  currentPattern,   \* usePatternStore.currentPattern (Null or a DrumPattern)
  isPlaying, isPaused,
  currentStepX2,    \* currentStep in half steps (seeking a "4t" grid moves by 1.5)
  bpm, pausedPosition, isLooping,
  transportBpm,     \* Tone.Transport: bpm.value, the clock's rate
  scheduleId,       \* module-level handle of the repeating event (0 = null)
  timeline,         \* Tone.Transport: the set of registered repeating events
  position,         \* Tone.Transport: elapsed position, in time units
  transportState,   \* Tone.Transport: "started" or "stopped"
  drawQueue,        \* Tone.Draw: callbacks deferred to a frame, in order
  isAudioReady,     \* useAudioStore.isAudioReady
  lastTick,         \* what the tick that produced this state triggered (observation)
  runEnded,         \* a non-looping run has fired its final tick (observation)
  lastCall,         \* the operation that produced this state (observation)
  lastEdit,         \* the pattern-store call that produced this state (observation)
  codecPc,          \* codec run: "idle", "input", "encoded", "received", "decoded"
  codecPattern,     \* the pattern handed to encodePattern
  encoded,          \* the URL parameter: a sequence of characters, or Null
  decoded,          \* what decodePattern returned, or that it threw
  urlCheckComplete, \* usePatternStore.urlCheckComplete
  initialLoadRef,   \* useUrlSync: initialLoadRef.current
  timeoutRef,       \* useUrlSync: timeoutRef.current (0 = null)
  timers,           \* window: the pending setTimeout callbacks
  urlParam,         \* window.location: the 'pattern' parameter, or none
  wallClock,        \* Date / timers: the time, in ms
  lastSync,         \* the URL-sync step that produced this state (observation)
  rendered,         \* React: the store values of the last render
  effects           \* React: the effects of that render still to run

storeVars == <<currentPattern, isPlaying, isPaused, currentStepX2, bpm,
               transportBpm,
               pausedPosition, isLooping, scheduleId, timeline, position,
               transportState, drawQueue, isAudioReady, lastTick, runEnded,
               lastCall, lastEdit>>

codecVars == <<codecPc, codecPattern, encoded, decoded>>

syncVars == <<urlCheckComplete, initialLoadRef, timeoutRef, timers, urlParam,
              wallClock, lastSync, rendered, effects>>

vars == <<storeVars, codecVars, syncVars>>

----------------------------------------------------------------------------
(* Bounds of the model *)

MaxElapsed == 500   \* the clock is observed up to this position
MaxDraw == 1        \* deferred callbacks pending at once, ordinary runs
MaxLookAhead == 2   \* deferred callbacks pending at once, look-ahead runs
MaxEdits == 4       \* pattern-store calls in a run of the editor
MaxConversions == 2 \* grid changes applied to a pattern of the editor
MaxCreations == 2   \* createEmptyPattern calls in a row
MaxSyncTime == 1250 \* the page is observed for this many ms
MaxMutations == 2   \* changes the user makes after the page has loaded

(* Time resolution: 240 units per second makes 60/bpm/stepsPerBeat integral
   for bpm in {40, 120, 200} and every subdivision. *)
UnitsPerSecond == 16 * 3 * 5

----------------------------------------------------------------------------
(* types/pattern.ts *)

Subdivisions == {"4n", "4t", "8n", "8t", "16n", "16t", "32n", "32t"}

(* getStepsPerBeat, doubled so that the 1.5 of "4t" stays an integer *)
getStepsPerBeatX2(subdivision) ==
  CASE subdivision = "4n"  -> 2
    [] subdivision = "4t"  -> 3
    [] subdivision = "8n"  -> 4
    [] subdivision = "8t"  -> 6
    [] subdivision = "16n" -> 8
    [] subdivision = "16t" -> 12
    [] subdivision = "32n" -> 16
    [] subdivision = "32t" -> 24

getTotalSteps(bars, subdivision) ==
  (bars * 4 * getStepsPerBeatX2(subdivision)) \div 2

Null == [isNull |-> TRUE]

undefinedFinger == [hand |-> "undefined", finger |-> 0]

Length(arr) == Cardinality(DOMAIN arr)

----------------------------------------------------------------------------
(* config/padMapping.ts *)

PAD_IDS ==
  [i \in 0..17 |->
     <<"kick", "snare", "snare_rim_open", "snare_rim_closed", "hihat_close_l",
       "hihat_close_r", "hihat_open", "crash_l", "crash_r", "ride_cup",
       "ride_bow", "splash", "tom_low_l", "tom_low_r", "tom_mid_l",
       "tom_mid_r", "tom_high_l", "tom_high_r">>[i + 1]]

FINGER_DEFAULTS(padId) ==
  IF padId \in {"kick", "snare", "hihat_close_l", "crash_l", "tom_low_l",
                "tom_mid_l", "tom_high_l", "snare_rim_closed"}
  THEN [hand |-> "L", finger |-> 2]
  ELSE [hand |-> "R", finger |-> 2]

----------------------------------------------------------------------------
(* stores/usePatternStore.ts *)

emptyStep == [active |-> FALSE, velocity |-> {}, finger |-> undefinedFinger]

createEmptySteps(count) == [i \in 0..(count - 1) |-> emptyStep]

createTrack(padId, stepCount) ==
  [padId |-> padId, label |-> padId, defaultFinger |-> FINGER_DEFAULTS(padId),
   steps |-> createEmptySteps(stepCount)]

(* Variant: a pattern of sixteen steps whatever the grid *)
createPatternSixteen(name, bars, subdivision) ==
  [id |-> "pattern", name |-> name, bpm |-> 120, subdivision |-> subdivision,
   bars |-> bars,
   tracks |-> [t \in 0..17 |-> createTrack(PAD_IDS[t], 16)]]

createPattern(name, bars, subdivision) ==
  [id |-> "pattern", name |-> name, bpm |-> 120, subdivision |-> subdivision,
   bars |-> bars,
   tracks |-> [t \in 0..17 |->
                 createTrack(PAD_IDS[t], getTotalSteps(bars, subdivision))]]

(* Variant: resizing that fills the added steps by repeating the track *)
resizeTrackStepsRepeats(track, newStepCount) ==
  [track EXCEPT !.steps =
     [i \in 0..(newStepCount - 1) |-> track.steps[i % Length(track.steps)]]]

(* Variant: resizing that extends a track but never shortens it *)
resizeTrackStepsNeverShortens(track, newStepCount) ==
  [track EXCEPT !.steps =
     [i \in 0..((IF newStepCount > Length(track.steps)
                  THEN newStepCount ELSE Length(track.steps)) - 1) |->
        IF i < Length(track.steps) THEN track.steps[i] ELSE emptyStep]]

resizeTrackSteps(track, newStepCount) ==
  [track EXCEPT !.steps =
     [i \in 0..(newStepCount - 1) |->
        IF i < Length(track.steps) THEN track.steps[i] ELSE emptyStep]]

(* Math.round of the non-negative rational num/den (ties round up) *)
RoundDiv(num, den) == (2 * num + den) \div (2 * den)

Min(S) == CHOOSE x \in S : \A y \in S : x <= y

(* Variant: combining that keeps the leading steps instead of every Nth *)
convertTrackSubdivisionTruncating(track, fromSubdivision, toSubdivision, bars) ==
  LET fromX2 == getStepsPerBeatX2(fromSubdivision)
      toX2 == getStepsPerBeatX2(toSubdivision)
      newTotalSteps == getTotalSteps(bars, toSubdivision)
      oldTotalSteps == Length(track.steps)
      \* ratio = toX2 / fromX2
      isCleanRatio == (toX2 % fromX2 = 0) \/ (fromX2 % toX2 = 0)
      activeSteps == {i \in 0..(oldTotalSteps - 1) : track.steps[i].active}
      \* old indices that land on newIndex, for ratio > 1 and for triplets
      sources(newIndex) ==
        {i \in activeSteps : RoundDiv(i * toX2, fromX2) = newIndex}
      combined(newIndex) ==
        LET oldIndex == newIndex
        IN IF oldIndex < oldTotalSteps /\ track.steps[oldIndex].active
           THEN track.steps[oldIndex] ELSE emptyStep
      \* forEach in index order: without the "already filled" test the last
      \* writer stays, with it the first one does
      spread(newIndex, firstWins) ==
        IF sources(newIndex) = {} THEN emptyStep
        ELSE IF firstWins THEN track.steps[Min(sources(newIndex))]
        ELSE track.steps[CHOOSE i \in sources(newIndex) :
                           \A k \in sources(newIndex) : k <= i]
  IN [track EXCEPT !.steps =
        [n \in 0..(newTotalSteps - 1) |->
           IF isCleanRatio
           THEN IF toX2 > fromX2 THEN spread(n, FALSE) ELSE combined(n)
           ELSE spread(n, TRUE)]]

(* Variant: a triplet conversion in which the last writer wins *)
convertTrackSubdivisionLastWins(track, fromSubdivision, toSubdivision, bars) ==
  LET fromX2 == getStepsPerBeatX2(fromSubdivision)
      toX2 == getStepsPerBeatX2(toSubdivision)
      newTotalSteps == getTotalSteps(bars, toSubdivision)
      oldTotalSteps == Length(track.steps)
      \* ratio = toX2 / fromX2
      isCleanRatio == (toX2 % fromX2 = 0) \/ (fromX2 % toX2 = 0)
      activeSteps == {i \in 0..(oldTotalSteps - 1) : track.steps[i].active}
      \* old indices that land on newIndex, for ratio > 1 and for triplets
      sources(newIndex) ==
        {i \in activeSteps : RoundDiv(i * toX2, fromX2) = newIndex}
      combined(newIndex) ==
        LET oldIndex == RoundDiv(newIndex * fromX2, toX2)
        IN IF oldIndex < oldTotalSteps /\ track.steps[oldIndex].active
           THEN track.steps[oldIndex] ELSE emptyStep
      \* forEach in index order: without the "already filled" test the last
      \* writer stays, with it the first one does
      spread(newIndex, firstWins) ==
        IF sources(newIndex) = {} THEN emptyStep
        ELSE IF firstWins THEN track.steps[Min(sources(newIndex))]
        ELSE track.steps[CHOOSE i \in sources(newIndex) :
                           \A k \in sources(newIndex) : k <= i]
  IN [track EXCEPT !.steps =
        [n \in 0..(newTotalSteps - 1) |->
           IF isCleanRatio
           THEN IF toX2 > fromX2 THEN spread(n, FALSE) ELSE combined(n)
           ELSE spread(n, FALSE)]]

convertTrackSubdivision(track, fromSubdivision, toSubdivision, bars) ==
  LET fromX2 == getStepsPerBeatX2(fromSubdivision)
      toX2 == getStepsPerBeatX2(toSubdivision)
      newTotalSteps == getTotalSteps(bars, toSubdivision)
      oldTotalSteps == Length(track.steps)
      \* ratio = toX2 / fromX2
      isCleanRatio == (toX2 % fromX2 = 0) \/ (fromX2 % toX2 = 0)
      activeSteps == {i \in 0..(oldTotalSteps - 1) : track.steps[i].active}
      \* old indices that land on newIndex, for ratio > 1 and for triplets
      sources(newIndex) ==
        {i \in activeSteps : RoundDiv(i * toX2, fromX2) = newIndex}
      combined(newIndex) ==
        LET oldIndex == RoundDiv(newIndex * fromX2, toX2)
        IN IF oldIndex < oldTotalSteps /\ track.steps[oldIndex].active
           THEN track.steps[oldIndex] ELSE emptyStep
      \* forEach in index order: without the "already filled" test the last
      \* writer stays, with it the first one does
      spread(newIndex, firstWins) ==
        IF sources(newIndex) = {} THEN emptyStep
        ELSE IF firstWins THEN track.steps[Min(sources(newIndex))]
        ELSE track.steps[CHOOSE i \in sources(newIndex) :
                           \A k \in sources(newIndex) : k <= i]
  IN [track EXCEPT !.steps =
        [n \in 0..(newTotalSteps - 1) |->
           IF isCleanRatio
           THEN IF toX2 > fromX2 THEN spread(n, FALSE) ELSE combined(n)
           ELSE spread(n, TRUE)]]

(* 'New Pattern', as code points *)
DefaultName == <<78, 101, 119, 32, 80, 97, 116, 116, 101, 114, 110>>

createEmptyPatternOp(name, bars, subdivision) ==
  createPattern(name, bars, subdivision)

(* Variant: setBars that builds a pattern when none is loaded *)
(* createEmptyPattern called with the arguments in args, a record that has
   a field for each argument that is given: name ?? 'New Pattern',
   bars = 1, subdivision = '16n' *)
createEmptyPatternWith(args) ==
  createEmptyPatternOp(IF "name" \in DOMAIN args THEN args.name ELSE DefaultName,
                       IF "bars" \in DOMAIN args THEN args.bars ELSE 1,
                       IF "subdivision" \in DOMAIN args
                       THEN args.subdivision ELSE "16n")

(* Variant: setBars that builds a pattern when none is loaded *)
setBarsOpCreates(pattern, bars) ==
  IF pattern = Null THEN createPattern(DefaultName, bars, "16n")
  ELSE [pattern EXCEPT
          !.bars = bars,
          !.tracks = [t \in 0..17 |->
                        resizeTrackSteps(pattern.tracks[t],
                                         getTotalSteps(bars, pattern.subdivision))]]

setBarsOp(pattern, bars) ==
  IF pattern = Null THEN pattern
  ELSE [pattern EXCEPT
          !.bars = bars,
          !.tracks = [t \in 0..17 |->
                        resizeTrackSteps(pattern.tracks[t],
                                         getTotalSteps(bars, pattern.subdivision))]]

setSubdivisionOp(pattern, subdivision) ==
  IF pattern = Null THEN pattern
  ELSE [pattern EXCEPT
          !.subdivision = subdivision,
          !.tracks = [t \in 0..17 |->
                        convertTrackSubdivision(pattern.tracks[t],
                                                pattern.subdivision,
                                                subdivision, pattern.bars)]]

(* Variant: toggleStep that leaves the finger on a step it deactivates *)
toggleStepOpKeepsFinger(pattern, trackIndex, stepIndex) ==
  IF pattern = Null THEN pattern
  ELSE LET track == pattern.tracks[trackIndex]
           step == track.steps[stepIndex]
           toggled == IF ~step.active
                      THEN [step EXCEPT !.active = TRUE,
                                        !.finger = track.defaultFinger]
                      ELSE [step EXCEPT !.active = FALSE]
       IN [pattern EXCEPT !.tracks[trackIndex].steps[stepIndex] = toggled]

toggleStepOp(pattern, trackIndex, stepIndex) ==
  IF pattern = Null THEN pattern
  ELSE LET track == pattern.tracks[trackIndex]
           step == track.steps[stepIndex]
           toggled == IF ~step.active
                      THEN [step EXCEPT !.active = TRUE,
                                        !.finger = track.defaultFinger]
                      ELSE [step EXCEPT !.active = FALSE,
                                        !.finger = undefinedFinger]
       IN [pattern EXCEPT !.tracks[trackIndex].steps[stepIndex] = toggled]

(* Variant: updateStepFinger that writes the finger whatever the step is *)
updateStepFingerOpAlways(pattern, trackIndex, stepIndex, finger) ==
  IF pattern = Null THEN pattern
  ELSE [pattern EXCEPT !.tracks[trackIndex].steps[stepIndex].finger = finger]

updateStepFingerOp(pattern, trackIndex, stepIndex, finger) ==
  IF pattern = Null THEN pattern
  ELSE LET step == pattern.tracks[trackIndex].steps[stepIndex]
       IN IF step.active
          THEN [pattern EXCEPT !.tracks[trackIndex].steps[stepIndex].finger = finger]
          ELSE pattern

(* 'Untitled Pattern', as code points *)
UntitledName ==
  <<85, 110, 116, 105, 116, 108, 101, 100, 32, 80, 97, 116, 116, 101, 114, 110>>

(* String.prototype.trim: white space and line terminators of the Basic
   Latin and Latin-1 blocks *)
WhiteSpace == {9, 10, 11, 12, 13, 32, 160}

trim(name) ==
  LET kept == {i \in 1..Len(name) : name[i] \notin WhiteSpace}
  IN IF kept = {} THEN <<>>
     ELSE SubSeq(name, Min(kept), CHOOSE i \in kept : \A k \in kept : k <= i)

setPatternNameOp(pattern, name) ==
  IF pattern = Null THEN pattern
  ELSE [pattern EXCEPT
          !.name = IF trim(name) = <<>> THEN UntitledName ELSE trim(name)]


----------------------------------------------------------------------------
(* stores/usePlaybackStore.ts *)

DEFAULT_BPM == 120
MIN_BPM == 40
MAX_BPM == 200

(* Inputs of the transport specification *)
BpmInputs == {10, 120, 250}
BpmDeltas == {0 - 80, 80}
BarsInputs == {1, 2}
SubdivisionInputs == {"4t", "16n"}
TrackInputs == {0}
PlayheadInputs == {0 - 1, 5, 40}

Max2(a, b) == IF a >= b THEN a ELSE b
Min2(a, b) == IF a <= b THEN a ELSE b

(* Variant: no upper limit *)
clampBpmNoCeiling(value) == Max2(MIN_BPM, value)

(* Math.round is the identity on the integers the model passes *)
clampBpm(value) == Max2(MIN_BPM, Min2(MAX_BPM, value))

(* (60 / bpm) / stepsPerBeat seconds, in time units *)
stepDuration(tempo, subdivision) ==
  (120 * UnitsPerSecond) \div (tempo * getStepsPerBeatX2(subdivision))

(* pattern?.subdivision ?? '16n' and pattern?.tracks[0]?.steps.length ?? 16 *)
subdivisionOf(pattern) ==
  IF pattern = Null THEN "16n" ELSE pattern.subdivision

totalStepsOf(pattern) ==
  IF pattern = Null THEN 16 ELSE Length(pattern.tracks[0].steps)

Mode ==
  IF isPlaying THEN "Playing" ELSE IF isPaused THEN "Paused" ELSE "Stopped"

NoCall == [op |-> "none", from |-> "none", at |-> 0]

NoTick == [fired |-> FALSE, step |-> 0, pads |-> {}, afterFinal |-> FALSE,
           clockStep |-> 0, aligned |-> FALSE, time |-> 0]

(* The call that is being made: its name, the transport state it is made in
   and, for pause(), the clock position it reads; for setBpm and adjustBpm,
   the argument. *)
CalledWith(op, arg) ==
  /\ lastCall' = [op |-> op, from |-> Mode, at |-> arg]
  /\ lastTick' = NoTick
  /\ UNCHANGED <<codecVars, syncVars, lastEdit>>

Called(op) == CalledWith(op, IF op = "pause" THEN position ELSE 0)

NotCalled ==
  /\ lastCall' = NoCall
  /\ lastTick' = NoTick
  /\ UNCHANGED <<codecVars, syncVars, lastEdit>>

(* Tone.Transport.clear(id) *)
TransportClear(events, id) == {e \in events : e.id # id}

(* Setting Transport.position: a repeating event stays on its own grid and
   is next due at the first grid point not before the new position. *)
Realign(events, newPosition) ==
  {[e EXCEPT !.time = newPosition + ((e.time - newPosition) % e.interval)] :
     e \in events}

NewId(events) ==
  CHOOSE n \in 1..(Cardinality(events) + 1) : \A e \in events : e.id # n

(* Tone.Transport.scheduleRepeat(callback, interval, startTime): startTime
   is a time on the transport's timeline; the event is due at startTime and
   every interval after it, first at the first of these instants that is
   not before the clock's position.  The callback's closure holds
   nextStepToPlay.  aligned records that neither the tempo nor the grid
   changed since the registration. *)
ScheduleRepeat(events, id, now, interval, startTime, nextStepToPlay) ==
  LET first == IF now > startTime
               THEN startTime
                      + ((now - startTime + interval - 1) \div interval) * interval
               ELSE startTime
  IN events \cup {[id |-> id, time |-> first, interval |-> interval,
                   nextStepToPlay |-> nextStepToPlay, aligned |-> TRUE]}

transportVars == <<isPlaying, isPaused, currentStepX2, pausedPosition, scheduleId,
                   timeline, position, transportState, runEnded>>

otherVars == <<currentPattern, isLooping, drawQueue, isAudioReady>>

(* Variant: the position rounded to the nearest step *)
calculateStepRounded(transportPosition, stepDur, totalSteps) ==
  RoundDiv(transportPosition, stepDur) % totalSteps

(* Math.floor((transportPosition / stepDuration) % totalSteps) *)
calculateStep(transportPosition, stepDur, totalSteps) ==
  (transportPosition \div stepDur) % totalSteps

(* Variant: play() that rewinds the clock when called in the Stopped state *)
playEffectFromZero ==
  LET cleared == IF scheduleId # 0 THEN TransportClear(timeline, scheduleId)
                 ELSE timeline
      subdivision == subdivisionOf(currentPattern)
      totalSteps == totalStepsOf(currentPattern)
      stepDur == stepDuration(bpm, subdivision)
      transportPosition == IF isPaused /\ pausedPosition > 0
                           THEN pausedPosition
                           ELSE IF isPaused THEN position ELSE 0
      calculatedStep == calculateStep(transportPosition, stepDur, totalSteps)
      positionInStep == transportPosition % stepDur
      isAtStepBoundary == positionInStep = 0
      timeUntilNextStep == IF isAtStepBoundary THEN 0
                           ELSE stepDur - positionInStep
      nextStepToPlay == IF isAtStepBoundary THEN calculatedStep
                        ELSE (calculatedStep + 1) % totalSteps
      id == NewId(cleared)
  IN /\ position' = transportPosition
     /\ currentStepX2' = 2 * calculatedStep
     /\ pausedPosition' = 0
     /\ scheduleId' = id
     /\ timeline' = ScheduleRepeat(Realign(cleared, transportPosition), id,
                                   transportPosition, stepDur,
                                   timeUntilNextStep, nextStepToPlay)
     /\ transportState' = "started"
     /\ isPlaying' = TRUE
     /\ isPaused' = FALSE
     /\ runEnded' = FALSE

playEffect ==
  LET cleared == IF scheduleId # 0 THEN TransportClear(timeline, scheduleId)
                 ELSE timeline
      subdivision == subdivisionOf(currentPattern)
      totalSteps == totalStepsOf(currentPattern)
      stepDur == stepDuration(bpm, subdivision)
      transportPosition == IF isPaused /\ pausedPosition > 0
                           THEN pausedPosition ELSE position
      calculatedStep == calculateStep(transportPosition, stepDur, totalSteps)
      positionInStep == transportPosition % stepDur
      isAtStepBoundary == positionInStep = 0
      timeUntilNextStep == IF isAtStepBoundary THEN 0
                           ELSE stepDur - positionInStep
      nextStepToPlay == IF isAtStepBoundary THEN calculatedStep
                        ELSE (calculatedStep + 1) % totalSteps
      id == NewId(cleared)
  IN /\ position' = transportPosition
     /\ currentStepX2' = 2 * calculatedStep
     /\ pausedPosition' = 0
     /\ scheduleId' = id
     /\ timeline' = ScheduleRepeat(Realign(cleared, transportPosition), id,
                                   transportPosition, stepDur,
                                   timeUntilNextStep, nextStepToPlay)
     /\ transportState' = "started"
     /\ isPlaying' = TRUE
     /\ isPaused' = FALSE
     /\ runEnded' = FALSE

(* Variant: pause() that leaves the repeating event registered *)
pauseEffectKeepsSchedule ==
  /\ transportState' = "stopped"
  /\ position' = 0
  /\ timeline' = Realign(timeline, 0)
  /\ isPlaying' = FALSE
  /\ isPaused' = TRUE
  /\ pausedPosition' = position
  /\ UNCHANGED <<scheduleId, currentStepX2, runEnded>>

(* Variant: pause() that stores the position of the last step boundary *)
pauseEffectSnapped ==
  /\ transportState' = "stopped"
  /\ position' = 0
  /\ timeline' = Realign(IF scheduleId # 0
                         THEN TransportClear(timeline, scheduleId)
                         ELSE timeline, 0)
  /\ scheduleId' = 0
  /\ isPlaying' = FALSE
  /\ isPaused' = TRUE
  /\ pausedPosition' =
       position - (position % stepDuration(bpm, subdivisionOf(currentPattern)))
  /\ UNCHANGED <<currentStepX2, runEnded>>

(* Variant: pause() that sets isPaused and leaves isPlaying as it is *)
pauseEffectStillPlaying ==
  /\ transportState' = "stopped"
  /\ position' = 0
  /\ timeline' = Realign(IF scheduleId # 0
                         THEN TransportClear(timeline, scheduleId)
                         ELSE timeline, 0)
  /\ scheduleId' = 0
  /\ isPaused' = TRUE
  /\ pausedPosition' = position
  /\ UNCHANGED <<isPlaying, currentStepX2, runEnded>>

pauseEffect ==
  /\ transportState' = "stopped"
  /\ position' = 0
  /\ timeline' = Realign(IF scheduleId # 0
                         THEN TransportClear(timeline, scheduleId)
                         ELSE timeline, 0)
  /\ scheduleId' = 0
  /\ isPlaying' = FALSE
  /\ isPaused' = TRUE
  /\ pausedPosition' = position
  /\ UNCHANGED <<currentStepX2, runEnded>>

(* Variant: stop() that returns at once when already stopped *)
stopEffectReturnsEarly ==
  IF ~isPlaying /\ ~isPaused
  THEN UNCHANGED transportVars
  ELSE /\ transportState' = "stopped"
       /\ timeline' = Realign(IF scheduleId # 0
                              THEN TransportClear(timeline, scheduleId)
                              ELSE timeline, 0)
       /\ scheduleId' = 0
       /\ position' = 0
       /\ isPlaying' = FALSE
       /\ isPaused' = FALSE
       /\ currentStepX2' = 0
       /\ pausedPosition' = 0
       /\ UNCHANGED runEnded

stopEffect ==
  IF ~isPlaying /\ ~isPaused
  THEN /\ position' = 0
       /\ timeline' = Realign(timeline, 0)
       /\ currentStepX2' = 0
       /\ pausedPosition' = 0
       /\ UNCHANGED <<isPlaying, isPaused, scheduleId, transportState, runEnded>>
  ELSE /\ transportState' = "stopped"
       /\ timeline' = Realign(IF scheduleId # 0
                              THEN TransportClear(timeline, scheduleId)
                              ELSE timeline, 0)
       /\ scheduleId' = 0
       /\ position' = 0
       /\ isPlaying' = FALSE
       /\ isPaused' = FALSE
       /\ currentStepX2' = 0
       /\ pausedPosition' = 0
       /\ UNCHANGED runEnded

(* Variant: play() without the isPlaying guard *)
playUnguarded ==
  /\ Called("play")
  /\ playEffect
  /\ UNCHANGED <<bpm, transportBpm, otherVars>>

play ==
  /\ Called("play")
  /\ IF isPlaying THEN UNCHANGED transportVars ELSE playEffect
  /\ UNCHANGED <<bpm, transportBpm, otherVars>>

pause ==
  /\ Called("pause")
  /\ IF ~isPlaying THEN UNCHANGED transportVars ELSE pauseEffect
  /\ UNCHANGED <<bpm, transportBpm, otherVars>>

stop ==
  /\ Called("stop")
  /\ stopEffect
  /\ UNCHANGED <<bpm, transportBpm, otherVars>>

toggle ==
  /\ Called("toggle")
  /\ IF isPlaying THEN stopEffect ELSE playEffect
  /\ UNCHANGED <<bpm, transportBpm, otherVars>>


(* A change of tempo or grid while an event is registered *)
Disturb(events, unchanged) ==
  {[e EXCEPT !.aligned = e.aligned /\ unchanged] : e \in events}

(* Tone.Transport keeps its position and its events in ticks (beats): a
   time of tempo oldBpm, read in seconds at tempo newBpm *)
Rescale(time, oldBpm, newBpm) == (time * oldBpm) \div newBpm

setBpmEffect(newBpm) ==
  /\ transportBpm' = clampBpm(newBpm)
  /\ bpm' = clampBpm(newBpm)
  /\ position' = Rescale(position, transportBpm, clampBpm(newBpm))
  /\ timeline' =
       {[e EXCEPT !.time = Rescale(e.time, transportBpm, clampBpm(newBpm)),
                  !.interval = Rescale(e.interval, transportBpm, clampBpm(newBpm))] :
          e \in Disturb(timeline, clampBpm(newBpm) = bpm)}

setBpm(newBpm) ==
  /\ CalledWith("setBpm", newBpm)
  /\ setBpmEffect(newBpm)
  /\ UNCHANGED <<isPlaying, isPaused, currentStepX2, pausedPosition, scheduleId,
                 transportState, runEnded, otherVars>>

adjustBpm(delta) ==
  /\ CalledWith("adjustBpm", delta)
  /\ setBpmEffect(bpm + delta)
  /\ UNCHANGED <<isPlaying, isPaused, currentStepX2, pausedPosition, scheduleId,
                 transportState, runEnded, otherVars>>

reset ==
  /\ Called("reset")
  /\ stopEffect
  /\ transportBpm' = DEFAULT_BPM
  /\ bpm' = DEFAULT_BPM
  /\ UNCHANGED otherVars

(* Transport.position = newPosition; set({currentStep, pausedPosition}) *)
seekTo(newStepX2, pattern) ==
  LET newPosition == (newStepX2 * stepDuration(bpm, pattern.subdivision)) \div 2
  IN /\ position' = newPosition
     /\ timeline' = Realign(timeline, newPosition)
     /\ currentStepX2' = newStepX2
     /\ pausedPosition' = newPosition
     /\ UNCHANGED <<isPlaying, isPaused, scheduleId, transportState, runEnded>>

seekForward ==
  /\ Called("seekForward")
  /\ IF currentPattern = Null THEN UNCHANGED transportVars
     ELSE seekTo((currentStepX2 + getStepsPerBeatX2(currentPattern.subdivision))
                   % (2 * totalStepsOf(currentPattern)), currentPattern)
  /\ UNCHANGED <<bpm, transportBpm, otherVars>>

seekBackward ==
  /\ Called("seekBackward")
  /\ IF currentPattern = Null THEN UNCHANGED transportVars
     ELSE LET newStepX2 == currentStepX2
                             - getStepsPerBeatX2(currentPattern.subdivision)
          IN seekTo(IF newStepX2 < 0
                    THEN 2 * totalStepsOf(currentPattern) + newStepX2
                    ELSE newStepX2, currentPattern)
  /\ UNCHANGED <<bpm, transportBpm, otherVars>>

toggleLoop ==
  /\ Called("toggleLoop")
  /\ isLooping' = ~isLooping
  /\ UNCHANGED <<bpm, transportBpm, transportVars, currentPattern, drawQueue, isAudioReady>>

setPlayhead(step) ==
  /\ Called("setPlayhead")
  /\ IF currentPattern = Null THEN UNCHANGED transportVars
     ELSE seekTo(2 * Max2(0, Min2(step, totalStepsOf(currentPattern) - 1)),
                 currentPattern)
  /\ UNCHANGED <<bpm, transportBpm, otherVars>>

(* The step the callback's closure keeps for the next tick *)
advanceStep(stepToPlay, shouldStop, currentTotalSteps) ==
  IF shouldStop THEN 0 ELSE (stepToPlay + 1) % currentTotalSteps

(* Variant: the pads are triggered although no sample is loaded *)
playedPadsUnchecked(pattern, audioReady, stepToPlay) ==
  IF pattern # Null
  THEN {pattern.tracks[t].padId : t \in
          {u \in 0..17 :
             /\ stepToPlay \in DOMAIN pattern.tracks[u].steps
             /\ pattern.tracks[u].steps[stepToPlay].active}}
  ELSE {}

(* The pads handed to playPad by one callback: forEach visits every track
   once, and track.steps[stepToPlay] is undefined outside the grid. *)
playedPads(pattern, audioReady, stepToPlay) ==
  IF pattern # Null /\ audioReady
  THEN {pattern.tracks[t].padId : t \in
          {u \in 0..17 :
             /\ stepToPlay \in DOMAIN pattern.tracks[u].steps
             /\ pattern.tracks[u].steps[stepToPlay].active}}
  ELSE {}

(* The scheduleRepeat callback, invoked when the clock reaches the event;
   at most maxDraw deferred callbacks wait for their frame. *)
Tick(maxDraw) ==
  \E e \in timeline :
    /\ transportState = "started"
    /\ e.time = position
    /\ Len(drawQueue) < maxDraw
    /\ LET currentTotalSteps == totalStepsOf(currentPattern)
           stepToPlay == e.nextStepToPlay
           pads == playedPads(currentPattern, isAudioReady, stepToPlay)
           nextStep == stepToPlay + 1
           shouldStop == ~isLooping /\ nextStep >= currentTotalSteps
       IN /\ timeline' = (timeline \ {e}) \cup
                {[e EXCEPT !.time = e.time + e.interval,
                           !.nextStepToPlay =
                              advanceStep(stepToPlay, shouldStop, currentTotalSteps)]}
          /\ drawQueue' = Append(drawQueue,
                                 IF shouldStop THEN [kind |-> "stop", step |-> 0]
                                 ELSE [kind |-> "commit", step |-> stepToPlay])
          /\ lastTick' = [fired |-> TRUE, step |-> stepToPlay, pads |-> pads,
                          afterFinal |-> runEnded,
                          clockStep |->
                            (position \div stepDuration(bpm, subdivisionOf(currentPattern)))
                              % currentTotalSteps,
                          aligned |-> e.aligned, time |-> e.time]
          /\ runEnded' = (runEnded \/ shouldStop)
    /\ lastCall' = NoCall
    /\ UNCHANGED <<currentPattern, isPlaying, isPaused, currentStepX2, bpm,
                   transportBpm, pausedPosition, isLooping, scheduleId, position,
                   transportState, isAudioReady, codecVars, syncVars,
                   lastEdit>>

(* Variant: the frame loop drops a deferred stop() instead of running it *)
DrawFireDropsStop ==
  /\ drawQueue # <<>>
  /\ drawQueue' = Tail(drawQueue)
  /\ IF Head(drawQueue).kind = "stop"
     THEN UNCHANGED transportVars
     ELSE /\ currentStepX2' = 2 * Head(drawQueue).step
          /\ UNCHANGED <<isPlaying, isPaused, pausedPosition, scheduleId,
                         timeline, position, transportState, runEnded>>
  /\ NotCalled
  /\ UNCHANGED <<currentPattern, bpm, transportBpm, isLooping, isAudioReady>>

(* Tone.Draw runs the oldest deferred callback *)
DrawFire ==
  /\ drawQueue # <<>>
  /\ drawQueue' = Tail(drawQueue)
  /\ IF Head(drawQueue).kind = "stop"
     THEN stopEffect
     ELSE /\ currentStepX2' = 2 * Head(drawQueue).step
          /\ UNCHANGED <<isPlaying, isPaused, pausedPosition, scheduleId,
                         timeline, position, transportState, runEnded>>
  /\ NotCalled
  /\ UNCHANGED <<currentPattern, bpm, transportBpm, isLooping, isAudioReady>>

(* The running clock advances, never past a due event.  The sampled
   instants are the middle of the event's interval and the instant it is due.
   A deferred callback runs in the frame near its timestamp: the clock runs
   on to the next due event while fewer than maxDraw callbacks are pending,
   and into the middle of a step only when none is. *)
Elapse(maxDraw) ==
  /\ transportState = "started"
  /\ Len(drawQueue) < maxDraw
  /\ \E target \in (position + 1)..MaxElapsed :
       /\ \A e \in timeline : target <= e.time
       /\ \/ timeline = {}
          \/ \E e \in timeline : target = e.time
          \/ /\ drawQueue = <<>>
             /\ \E e \in timeline : target = e.time - (e.interval \div 2)
       /\ position' = target
  /\ NotCalled
  /\ UNCHANGED <<currentPattern, isPlaying, isPaused, currentStepX2, bpm, transportBpm,
                 pausedPosition, isLooping, scheduleId, timeline,
                 transportState, drawQueue, isAudioReady, runEnded>>

(* useAudioStore: the first user interaction makes audio ready *)
initAudio ==
  /\ ~isAudioReady
  /\ isAudioReady' = TRUE
  /\ NotCalled
  /\ UNCHANGED <<currentPattern, bpm, transportBpm, isLooping, transportVars, drawQueue>>

(* Pattern edits, as the sequencer UI issues them *)
SameGrid(p, q) ==
  subdivisionOf(p) = subdivisionOf(q) /\ totalStepsOf(p) = totalStepsOf(q)

editPattern(newPattern) ==
  /\ currentPattern' = newPattern
  /\ timeline' = Disturb(timeline, SameGrid(currentPattern, newPattern))
  /\ NotCalled
  /\ UNCHANGED <<isPlaying, isPaused, currentStepX2, bpm, transportBpm,
                 pausedPosition, isLooping, scheduleId, position,
                 transportState, drawQueue, isAudioReady, runEnded>>

createEmptyPattern ==
  /\ currentPattern = Null
  /\ editPattern(createEmptyPatternOp(DefaultName, 1, "16n"))

setBars(bars) ==
  /\ currentPattern # Null /\ ~isPlaying
  /\ bars # currentPattern.bars
  /\ editPattern(setBarsOp(currentPattern, bars))

setSubdivision(subdivision) ==
  /\ currentPattern # Null /\ ~isPlaying
  /\ subdivision # currentPattern.subdivision
  /\ editPattern(setSubdivisionOp(currentPattern, subdivision))

toggleStep(trackIndex, stepIndex) ==
  /\ currentPattern # Null
  /\ stepIndex \in DOMAIN currentPattern.tracks[trackIndex].steps
  /\ editPattern(toggleStepOp(currentPattern, trackIndex, stepIndex))

(* Calls of the pattern store's actions, with what they were applied to:
   the argument values, the pattern before the call, and the same of the
   call before it. *)
NoEdit ==
  [op |-> "none", bars |-> 0, subdivision |-> "none", trackIndex |-> 0,
   stepIndex |-> 0, before |-> Null, count |-> 0,
   prev |-> [op |-> "none", bars |-> 0, subdivision |-> "none",
             trackIndex |-> 0, stepIndex |-> 0, before |-> Null]]

storeSet(op, bars, subdivision, trackIndex, stepIndex, newPattern) ==
  /\ currentPattern' = newPattern
  /\ timeline' = Disturb(timeline, SameGrid(currentPattern, newPattern))
  /\ lastEdit' = [op |-> op, bars |-> bars, subdivision |-> subdivision,
                  trackIndex |-> trackIndex, stepIndex |-> stepIndex,
                  before |-> currentPattern, count |-> lastEdit.count + 1,
                  prev |-> [op |-> lastEdit.op, bars |-> lastEdit.bars,
                            subdivision |-> lastEdit.subdivision,
                            trackIndex |-> lastEdit.trackIndex,
                            stepIndex |-> lastEdit.stepIndex,
                            before |-> lastEdit.before]]
  /\ lastCall' = NoCall
  /\ lastTick' = NoTick
  /\ UNCHANGED <<isPlaying, isPaused, currentStepX2, bpm, transportBpm,
                 pausedPosition, isLooping, scheduleId, position,
                 transportState, drawQueue, isAudioReady, runEnded, codecVars>>

(* a call of the store with no subscriber but the editor *)
storeCall(op, bars, subdivision, trackIndex, stepIndex, newPattern) ==
  /\ storeSet(op, bars, subdivision, trackIndex, stepIndex, newPattern)
  /\ UNCHANGED syncVars

storeCreateEmptyPattern(name, bars, subdivision) ==
  storeCall("createEmptyPattern", bars, subdivision, 0, 0,
            createEmptyPatternOp(name, bars, subdivision))

storeSetBars(bars) ==
  storeCall("setBars", bars, "none", 0, 0, setBarsOp(currentPattern, bars))

storeSetSubdivision(subdivision) ==
  storeCall("setSubdivision", 0, subdivision, 0, 0,
            setSubdivisionOp(currentPattern, subdivision))

storeToggleStep(trackIndex, stepIndex) ==
  /\ currentPattern = Null \/ stepIndex < totalStepsOf(currentPattern)
  /\ storeCall("toggleStep", 0, "none", trackIndex, stepIndex,
               toggleStepOp(currentPattern, trackIndex, stepIndex))

storeUpdateStepFinger(trackIndex, stepIndex, finger) ==
  /\ currentPattern = Null \/ stepIndex < totalStepsOf(currentPattern)
  /\ storeCall("updateStepFinger", 0, "none", trackIndex, stepIndex,
               updateStepFingerOp(currentPattern, trackIndex, stepIndex, finger))

storeSetPatternName(name) ==
  storeCall("setPatternName", 0, "none", 0, 0,
            setPatternNameOp(currentPattern, name))

InitTransport ==
  /\ isPlaying = FALSE
  /\ isPaused = FALSE
  /\ currentStepX2 = 0
  /\ bpm = DEFAULT_BPM
  /\ transportBpm = DEFAULT_BPM
  /\ pausedPosition = 0
  /\ isLooping = TRUE
  /\ scheduleId = 0
  /\ timeline = {}
  /\ position = 0
  /\ transportState = "stopped"
  /\ drawQueue = <<>>
  /\ isAudioReady = FALSE
  /\ lastTick = NoTick
  /\ runEnded = FALSE
  /\ lastCall = NoCall
  /\ lastEdit = NoEdit

(* the page before its effects have run, opened without a pattern link *)
NoSync == [op |-> "none", mutatedAt |-> 0]

InitSync ==
  /\ urlCheckComplete = FALSE
  /\ initialLoadRef = TRUE
  /\ timeoutRef = 0
  /\ timers = {}
  /\ urlParam = [isNull |-> TRUE, chars |-> <<>>]
  /\ wallClock = 0
  /\ lastSync = NoSync
  /\ rendered = [complete |-> FALSE, pattern |-> Null]
  /\ effects = {"loader", "initialize", "sync"}

InitStore ==
  /\ currentPattern = Null
  /\ InitTransport
  /\ InitSync

Init ==
  /\ InitStore
  /\ codecPc = "idle"
  /\ codecPattern = Null
  /\ encoded = [isNull |-> TRUE, chars |-> <<>>]
  /\ decoded = [threw |-> FALSE, value |-> Null]

Next ==
  \/ play
  \/ pause
  \/ stop
  \/ toggle
  \/ reset
  \/ (~isPlaying /\ seekForward)
  \/ (~isPlaying /\ seekBackward)
  \/ toggleLoop
  \/ \E step \in PlayheadInputs : (~isPlaying /\ setPlayhead(step))
  \/ Tick(MaxDraw)
  \/ DrawFire
  \/ Elapse(MaxDraw)
  \/ createEmptyPattern

Spec == Init /\ [][Next]_vars

(* Changing the tempo before, during and between runs *)
NextTempo ==
  \/ play
  \/ stop
  \/ \E v \in BpmInputs : setBpm(v)
  \/ \E d \in BpmDeltas : adjustBpm(d)
  \/ reset
  \/ Tick(MaxDraw)
  \/ DrawFire
  \/ Elapse(MaxDraw)
  \/ createEmptyPattern

SpecTempo == Init /\ [][NextTempo]_vars

(* Editing the grid between runs *)
NextGrid ==
  \/ play
  \/ pause
  \/ stop
  \/ Tick(MaxDraw)
  \/ DrawFire
  \/ Elapse(MaxDraw)
  \/ createEmptyPattern
  \/ \E b \in BarsInputs : setBars(b)
  \/ \E sub \in SubdivisionInputs : setSubdivision(sub)

SpecGrid == Init /\ [][NextGrid]_vars

(* Audible runs: samples loaded, cells programmed, ticks invoked ahead of
   the frames that run their deferred callbacks *)
NextRun ==
  \/ play
  \/ stop
  \/ toggleLoop
  \/ \E step \in PlayheadInputs : (~isPlaying /\ setPlayhead(step))
  \/ Tick(MaxLookAhead)
  \/ DrawFire
  \/ Elapse(MaxLookAhead)
  \/ initAudio
  \/ createEmptyPattern
  \/ \E t \in TrackInputs : toggleStep(t, 0)

SpecRun == Init /\ [][NextRun]_vars

(* Runs left to themselves: while the transport is Playing the only user
   call is pause(), made with looping off; the clock runs, due callbacks are
   invoked and frames are delivered *)
NextLive ==
  \/ (~isPlaying /\ play)
  \/ (~isPlaying /\ toggleLoop)
  \/ \E step \in PlayheadInputs : (~isPlaying /\ setPlayhead(step))
  \/ (~isLooping /\ pause)
  \/ Tick(MaxDraw)
  \/ DrawFire
  \/ Elapse(MaxDraw)
  \/ createEmptyPattern

SpecLive ==
  /\ Init
  /\ [][NextLive]_vars
  /\ WF_vars(Tick(MaxDraw))
  /\ WF_vars(DrawFire)
  /\ WF_vars(Elapse(MaxDraw))

(* Cueing the playhead on straight and triplet grids: the transport is never
   started, the grid changes between seeks *)
SeekBars == {1, 2}
SeekSubdivisions == {"4t", "8t", "16n", "32n"}

NextSeek ==
  \/ createEmptyPattern
  \/ \E b \in SeekBars : setBars(b)
  \/ \E sub \in SeekSubdivisions : setSubdivision(sub)
  \/ seekForward
  \/ seekBackward
  \/ \E step \in PlayheadInputs : setPlayhead(step)

SpecSeek == Init /\ [][NextSeek]_vars

(* Changing the tempo while the transport rests: paused inside a run, or
   stopped with the playhead moved *)
NextCue ==
  \/ play
  \/ pause
  \/ \E step \in PlayheadInputs : (~isPlaying /\ setPlayhead(step))
  \/ \E v \in BpmInputs : (~isPlaying /\ setBpm(v))
  \/ Tick(MaxDraw)
  \/ DrawFire
  \/ Elapse(MaxDraw)
  \/ createEmptyPattern

SpecCue == Init /\ [][NextCue]_vars

(* Every call of the store made in every transport state: the seeks and
   setPlayhead also while Playing *)
NextFlags ==
  \/ play
  \/ pause
  \/ stop
  \/ toggle
  \/ seekForward
  \/ seekBackward
  \/ \E step \in PlayheadInputs : setPlayhead(step)
  \/ Tick(MaxDraw)
  \/ DrawFire
  \/ Elapse(MaxDraw)
  \/ createEmptyPattern

SpecFlags == Init /\ [][NextFlags]_vars

----------------------------------------------------------------------------
(* utils/patternUrl.ts *)

MAX_ENCODED_LENGTH == 2000
BINARY_VERSION == 1
NUM_TRACKS == 18

(* A lookup that finds nothing yields undefined, written Undefined; in the
   bit operations of the code undefined counts as 0. *)
Undefined == 0 - 1

SUBDIVISION_MAP(subdivision) ==
  CASE subdivision = "8n"  -> 0
    [] subdivision = "16n" -> 1
    [] subdivision = "32n" -> 2
    [] OTHER -> Undefined

SUBDIVISION_REVERSE(subdivIdx) ==
  CASE subdivIdx = 0 -> "8n"
    [] subdivIdx = 1 -> "16n"
    [] subdivIdx = 2 -> "32n"
    [] OTHER -> "undefined"

(* ToInt32 of a byte-sized operand *)
ToInt(x) == IF x = Undefined THEN 0 ELSE x

Pow2(n) == CASE n = 0 -> 1 [] n = 1 -> 2 [] n = 2 -> 4 [] n = 3 -> 8
             [] n = 4 -> 16 [] n = 5 -> 32 [] n = 6 -> 64 [] n = 7 -> 128
             [] n = 8 -> 256

(* x << n, x >> n and (x >> n) & (2^width - 1) on non-negative operands *)
Shl(x, n) == ToInt(x) * Pow2(n)
Shr(x, n) == ToInt(x) \div Pow2(n)
Bits(x, n, width) == Shr(x, n) % Pow2(width)

(* Math.ceil(a / b) *)
CeilDiv(a, b) == (a + b - 1) \div b

(* The characters of the standard Base64 alphabet, by value, and the other
   characters a URL parameter is made of *)
Base64Chars ==
  <<"A", "B", "C", "D", "E", "F", "G", "H", "I", "J", "K", "L", "M", "N", "O",
    "P", "Q", "R", "S", "T", "U", "V", "W", "X", "Y", "Z", "a", "b", "c", "d",
    "e", "f", "g", "h", "i", "j", "k", "l", "m", "n", "o", "p", "q", "r", "s",
    "t", "u", "v", "w", "x", "y", "z", "0", "1", "2", "3", "4", "5", "6", "7",
    "8", "9", "+", "/">>

Base64Alphabet == {Base64Chars[i] : i \in 1..64}

Base64Value(char) == (CHOOSE i \in 1..64 : Base64Chars[i] = char) - 1

(* str.replace(/\+/g, '-').replace(/\//g, '_').replace(/=/g, '') *)
toUrlSafe(base64) ==
  LET replaced == [i \in 1..Len(base64) |->
                     IF base64[i] = "+" THEN "-"
                     ELSE IF base64[i] = "/" THEN "_" ELSE base64[i]]
  IN SelectSeq(replaced, LAMBDA char : char # "=")

fromUrlSafe(urlSafe) ==
  LET base64 == [i \in 1..Len(urlSafe) |->
                   IF urlSafe[i] = "-" THEN "+"
                   ELSE IF urlSafe[i] = "_" THEN "/" ELSE urlSafe[i]]
      padding == Len(base64) % 4
  IN IF padding > 0
     THEN base64 \o [i \in 1..(4 - padding) |-> "="]
     ELSE base64

(* TextEncoder.encode: UTF-8 of code points of the Basic Multilingual Plane;
   a code point contributes one, two or three bytes *)
utf8Encode(name) ==
  LET byteOf(c, j) ==
        IF c < 128 THEN (IF j = 1 THEN c ELSE Undefined)
        ELSE IF c < 2048
        THEN (CASE j = 1 -> 192 + (c \div 64)
                [] j = 2 -> 128 + (c % 64)
                [] OTHER -> Undefined)
        ELSE (CASE j = 1 -> 224 + (c \div 4096)
                [] j = 2 -> 128 + ((c \div 64) % 64)
                [] OTHER -> 128 + (c % 64))
      slots == [k \in 1..(3 * Len(name)) |->
                  byteOf(name[((k - 1) \div 3) + 1], ((k - 1) % 3) + 1)]
  IN SelectSeq(slots, LAMBDA byte : byte # Undefined)

(* TextDecoder.decode: a well-formed sequence of one, two or three bytes
   decodes to its code point; the longest prefix of a sequence that is cut
   short, and any other byte, decodes to U+FFFD.  A byte that is not a
   continuation byte always begins a sequence. *)
utf8Decode(bytes) ==
  LET n == Len(bytes)
      continues(i) == i >= 1 /\ i <= n /\ bytes[i] >= 128 /\ bytes[i] <= 191
      threeBytes(i) == /\ bytes[i] >= 224 /\ bytes[i] <= 239 /\ continues(i + 1)
                       /\ (bytes[i] = 224 => bytes[i + 1] >= 160)
                       /\ (bytes[i] = 237 => bytes[i + 1] <= 159)
      \* bytes consumed by the sequence that begins at i
      consumed(i) ==
        IF bytes[i] >= 194 /\ bytes[i] <= 223 /\ continues(i + 1) THEN 2
        ELSE IF threeBytes(i) THEN (IF continues(i + 2) THEN 3 ELSE 2)
        ELSE 1
      codePoint(i) ==
        IF bytes[i] < 128 THEN bytes[i]
        ELSE IF bytes[i] >= 194 /\ bytes[i] <= 223 /\ continues(i + 1)
        THEN (bytes[i] - 192) * 64 + (bytes[i + 1] - 128)
        ELSE IF threeBytes(i) /\ continues(i + 2)
        THEN (bytes[i] - 224) * 4096 + (bytes[i + 1] - 128) * 64
               + (bytes[i + 2] - 128)
        ELSE 65533
      begins(i) == i >= 1 /\ i <= n /\ ~continues(i)
      covered(i) == \/ (begins(i - 1) /\ consumed(i - 1) >= 2)
                    \/ (begins(i - 2) /\ consumed(i - 2) = 3)
      slots == [i \in 1..n |->
                  IF begins(i) THEN codePoint(i)
                  ELSE IF covered(i) THEN Undefined ELSE 65533]
  IN SelectSeq(slots, LAMBDA c : c # Undefined)

encodePatternName(name) ==
  LET nameBytes == utf8Encode(name)
  IN <<Min2(Len(nameBytes), 255)>>
       \o [i \in 1..Len(nameBytes) |-> IF i <= 255 THEN nameBytes[i] ELSE 0]

(* data[offset] of a Uint8Array: undefined outside the array, and at the
   offset NaN that an undefined length leaves behind *)
NaN == 0 - 2

ByteAt(data, offset) ==
  IF offset # NaN /\ offset >= 0 /\ offset < Len(data)
  THEN data[offset + 1] ELSE Undefined

decodePatternName(data, offset) ==
  LET length == ByteAt(data, offset)
  IN IF length = Undefined
     THEN [name |-> <<>>, bytesRead |-> NaN]
     ELSE [name |-> utf8Decode(SubSeq(data, offset + 2,
                                      Min2(offset + 1 + length, Len(data)))),
           bytesRead |-> 1 + length]

(* The active steps of a pattern in the order the loops visit them, as
   positions trackIdx * totalSteps + stepIdx *)
ActiveCells(pattern, totalSteps) ==
  {n \in 0..(NUM_TRACKS * totalSteps - 1) :
     LET steps == pattern.tracks[n \div totalSteps].steps
     IN (n % totalSteps) \in DOMAIN steps /\ steps[n % totalSteps].active}

RECURSIVE InOrder(_)
InOrder(S) ==
  IF S = {} THEN <<>> ELSE <<Min(S)>> \o InOrder(S \ {Min(S)})

fingerNibble(step) ==
  IF step.finger # undefinedFinger
  THEN Shl(IF step.finger.hand = "R" THEN 1 ELSE 0, 3)
         + ((step.finger.finger - 1) % 8)
  ELSE 0

toBinary(pattern) ==
  LET totalSteps == Length(pattern.tracks[0].steps)
      bitmapBytesPerTrack == CeilDiv(totalSteps, 8)
      nameBytes == encodePatternName(pattern.name)
      barsValue == pattern.bars - 1
      subdivValue == SUBDIVISION_MAP(pattern.subdivision)
      header == <<BINARY_VERSION,
                  (Shl(barsValue, 6) + Shl(subdivValue, 4)) % 256,
                  Bits(pattern.bpm, 8, 8),
                  pattern.bpm % 256>>
      bit(trackIdx, stepIdx) ==
        IF /\ stepIdx < totalSteps
           /\ stepIdx \in DOMAIN pattern.tracks[trackIdx].steps
           /\ pattern.tracks[trackIdx].steps[stepIdx].active
        THEN 1 ELSE 0
      bitmap == [k \in 1..(NUM_TRACKS * bitmapBytesPerTrack) |->
                   LET trackIdx == (k - 1) \div bitmapBytesPerTrack
                       first == ((k - 1) % bitmapBytesPerTrack) * 8
                   IN 128 * bit(trackIdx, first) + 64 * bit(trackIdx, first + 1)
                      + 32 * bit(trackIdx, first + 2) + 16 * bit(trackIdx, first + 3)
                      + 8 * bit(trackIdx, first + 4) + 4 * bit(trackIdx, first + 5)
                      + 2 * bit(trackIdx, first + 6) + bit(trackIdx, first + 7)]
      cells == InOrder(ActiveCells(pattern, totalSteps))
      fingerData == [i \in 1..Len(cells) |->
                       fingerNibble(pattern.tracks[cells[i] \div totalSteps]
                                      .steps[cells[i] % totalSteps])]
      packed == [j \in 1..CeilDiv(Len(fingerData), 2) |->
                   (Shl(fingerData[2 * j - 1], 4)
                      + (IF 2 * j <= Len(fingerData) THEN fingerData[2 * j] ELSE 0))
                     % 256]
  IN header \o nameBytes \o bitmap \o packed

(* btoa of the string whose char codes are the bytes *)
btoa(bytes) ==
  LET n == Len(bytes)
      byte(i) == IF i <= n THEN bytes[i] ELSE 0
  IN [k \in 1..(4 * CeilDiv(n, 3)) |->
        LET g == 3 * ((k - 1) \div 4)
            j == (k - 1) % 4
            value == CASE j = 0 -> byte(g + 1) \div 4
                       [] j = 1 -> (byte(g + 1) % 4) * 16 + (byte(g + 2) \div 16)
                       [] j = 2 -> (byte(g + 2) % 16) * 4 + (byte(g + 3) \div 64)
                       [] j = 3 -> byte(g + 3) % 64
        IN IF (j = 2 /\ g + 2 > n) \/ (j = 3 /\ g + 3 > n)
           THEN "=" ELSE Base64Chars[value + 1]]

(* What a call that can throw gives back *)
Threw == [threw |-> TRUE, undefined |-> FALSE, bytes |-> <<>>]
Returned(bytes) == [threw |-> FALSE, undefined |-> FALSE, bytes |-> bytes]
ReturnedUndefined == [threw |-> FALSE, undefined |-> TRUE, bytes |-> <<>>]

(* atob: up to two trailing "=" of a string of 4k characters are dropped;
   a remaining character outside the alphabet or a length of 4k+1 throws *)
atob(base64) ==
  LET len == Len(base64)
      pads == IF len % 4 = 0 /\ len > 0
              THEN IF base64[len] = "=" /\ base64[len - 1] = "=" THEN 2
                   ELSE IF base64[len] = "=" THEN 1 ELSE 0
              ELSE 0
      data == SubSeq(base64, 1, len - pads)
      n == Len(data)
      value(i) == Base64Value(data[i])
  IN IF n % 4 = 1 \/ \E i \in 1..n : data[i] \notin Base64Alphabet
     THEN Threw
     ELSE Returned(
            [m \in 1..((n * 6) \div 8) |->
               LET c == ((8 * (m - 1)) \div 6) + 1
                   r == (8 * (m - 1)) % 6
               IN CASE r = 0 -> value(c) * 4 + (value(c + 1) \div 16)
                    [] r = 2 -> (value(c) % 16) * 16 + (value(c + 1) \div 4)
                    [] r = 4 -> (value(c) % 4) * 64 + value(c + 1)])

(* pako, by its contract: deflate frames the data with the two zlib header
   bytes and a trailing check byte; inflate gives the data of a well-formed
   frame back and throws on any other input, except that for an input that
   ends before the frame does it throws or returns undefined. *)
Checksum(bytes) ==
  (1 + Len(bytes)
     + (IF bytes = <<>> THEN 0 ELSE bytes[1] + bytes[Len(bytes)])) % 251

deflate(bytes) == <<120, 156>> \o bytes \o <<Checksum(bytes)>>

inflate(bytes, truncatedThrows) ==
  LET len == Len(bytes)
  IN IF len < 3
     THEN IF truncatedThrows \/ \E i \in 1..len : bytes[i] # <<120, 156>>[i]
          THEN Threw ELSE ReturnedUndefined
     ELSE IF /\ bytes[1] = 120 /\ bytes[2] = 156
             /\ bytes[len] = Checksum(SubSeq(bytes, 3, len - 1))
          THEN Returned(SubSeq(bytes, 3, len - 1))
          ELSE Threw

(* padId.replace(/_/g, ' ') *)
spaced(padId) ==
  CASE padId = "snare_rim_open" -> "snare rim open"
    [] padId = "snare_rim_closed" -> "snare rim closed"
    [] padId = "hihat_close_l" -> "hihat close l"
    [] padId = "hihat_close_r" -> "hihat close r"
    [] padId = "hihat_open" -> "hihat open"
    [] padId = "crash_l" -> "crash l"
    [] padId = "crash_r" -> "crash r"
    [] padId = "ride_cup" -> "ride cup"
    [] padId = "ride_bow" -> "ride bow"
    [] padId = "tom_low_l" -> "tom low l"
    [] padId = "tom_low_r" -> "tom low r"
    [] padId = "tom_mid_l" -> "tom mid l"
    [] padId = "tom_mid_r" -> "tom mid r"
    [] padId = "tom_high_l" -> "tom high l"
    [] padId = "tom_high_r" -> "tom high r"
    [] OTHER -> padId

(* data is what inflate gave back: bytes, or undefined (reading data[0]
   then throws inside the try block) *)
fromBinary(data) ==
  IF data.undefined THEN Null
  ELSE
    LET bytes == data.bytes
        version == ByteAt(bytes, 0)
        flags == ByteAt(bytes, 1)
        bars == Bits(flags, 6, 2) + 1
        subdivIdx == Bits(flags, 4, 2)
        subdivision == IF SUBDIVISION_REVERSE(subdivIdx) = "undefined"
                       THEN "16n" ELSE SUBDIVISION_REVERSE(subdivIdx)
        bpmValue == Shl(ByteAt(bytes, 2), 8) + ToInt(ByteAt(bytes, 3))
        named == decodePatternName(bytes, 4)
        offset == IF named.bytesRead = NaN THEN NaN ELSE 4 + named.bytesRead
        totalSteps == getTotalSteps(bars, subdivision)
        bitmapBytesPerTrack == CeilDiv(totalSteps, 8)
        at(k) == ByteAt(bytes, IF offset = NaN THEN NaN ELSE offset + k)
        isActive(trackIdx, stepIdx) ==
          Bits(at(trackIdx * bitmapBytesPerTrack + (stepIdx \div 8)),
               7 - (stepIdx % 8), 1) = 1
        activePositions ==
          {n \in 0..(NUM_TRACKS * totalSteps - 1) :
             isActive(n \div totalSteps, n % totalSteps)}
        nibble(i) ==
          LET byte == at(NUM_TRACKS * bitmapBytesPerTrack + (i \div 2))
          IN IF i % 2 = 0 THEN Bits(byte, 4, 4) ELSE Bits(byte, 0, 4)
        fingerAt(n) ==
          LET i == Cardinality({m \in activePositions : m < n})
          IN [hand |-> IF Shr(nibble(i), 3) # 0 THEN "R" ELSE "L",
              finger |-> (nibble(i) % 8) + 1]
    IN IF version # BINARY_VERSION THEN Null
       ELSE [id |-> "shared", name |-> named.name, bpm |-> bpmValue,
             subdivision |-> subdivision, bars |-> bars,
             tracks |->
               [t \in 0..(NUM_TRACKS - 1) |->
                  [padId |-> PAD_IDS[t], label |-> spaced(PAD_IDS[t]),
                   defaultFinger |-> FINGER_DEFAULTS(PAD_IDS[t]),
                   steps |->
                     [st \in 0..(totalSteps - 1) |->
                        IF isActive(t, st)
                        THEN [active |-> TRUE, velocity |-> {100},
                              finger |-> fingerAt(t * totalSteps + st)]
                        ELSE emptyStep]]]]

(* A URL parameter, or null *)
Text(chars) == [isNull |-> FALSE, chars |-> chars]
NoText == [isNull |-> TRUE, chars |-> <<>>]

(* Variant: the pattern id leaves a mark in the payload *)
encodePatternTagged(pattern) ==
  LET tag == IF pattern.id = "pattern" THEN <<>> ELSE <<0>>
      urlSafe == toUrlSafe(btoa(deflate(toBinary(pattern) \o tag)))
  IN IF Len(urlSafe) > MAX_ENCODED_LENGTH THEN NoText ELSE Text(urlSafe)

encodePattern(pattern) ==
  LET urlSafe == toUrlSafe(btoa(deflate(toBinary(pattern))))
  IN IF Len(urlSafe) > MAX_ENCODED_LENGTH THEN NoText ELSE Text(urlSafe)

(* The outcome of a call of decodePattern: it threw, or returned a value *)
Outcome(threw, value) == [threw |-> threw, value |-> value]

(* Variant: decodePattern without its try/catch *)
decodePatternUncaught(encodedChars, truncatedThrows) ==
  LET binaryString == atob(fromUrlSafe(encodedChars))
      decompressed == inflate(binaryString.bytes, truncatedThrows)
  IN IF binaryString.threw \/ decompressed.threw
     THEN Outcome(TRUE, Null)
     ELSE Outcome(FALSE, fromBinary(decompressed))

decodePattern(encodedChars, truncatedThrows) ==
  LET binaryString == atob(fromUrlSafe(encodedChars))
      decompressed == inflate(binaryString.bytes, truncatedThrows)
  IN IF binaryString.threw \/ decompressed.threw
     THEN Outcome(FALSE, Null)
     ELSE Outcome(FALSE, fromBinary(decompressed))

(* Inputs of the codec specification: patterns as the editor can build
   them, and URL parameters as a link can carry them *)
(* A name of 259 UTF-8 bytes: 'A' and 86 three-byte code points *)
LongName == <<65>> \o [i \in 1..86 |-> 54620]

CodecNames == {<<>>, <<65>>, <<233, 54620, 66>>, LongName}
CodecBpms == {40, 120, 200}
CodecGrids ==
  {<<1, subdivision>> : subdivision \in Subdivisions}
    \cup {<<bars, "16n">> : bars \in 2..4} \cup {<<4, "4t">>}

CellChoices(totalSteps) ==
  {{},
   {[trackIdx |-> 0, stepIdx |-> 0, finger |-> [hand |-> "L", finger |-> 1]]},
   {[trackIdx |-> 0, stepIdx |-> 0, finger |-> [hand |-> "R", finger |-> 5]],
    [trackIdx |-> 3, stepIdx |-> 1, finger |-> [hand |-> "L", finger |-> 3]],
    [trackIdx |-> 17, stepIdx |-> totalSteps - 1,
     finger |-> [hand |-> "R", finger |-> 2]]}}

withCells(pattern, cells) ==
  [pattern EXCEPT !.tracks =
     [t \in 0..17 |->
        [pattern.tracks[t] EXCEPT !.steps =
           [st \in DOMAIN pattern.tracks[t].steps |->
              IF \E c \in cells : c.trackIdx = t /\ c.stepIdx = st
              THEN [active |-> TRUE, velocity |-> {100},
                    finger |-> (CHOOSE c \in cells :
                                  c.trackIdx = t /\ c.stepIdx = st).finger]
              ELSE pattern.tracks[t].steps[st]]]]]

CodecPatterns ==
  UNION {{withCells([createPattern(name, grid[1], grid[2]) EXCEPT !.bpm = tempo],
                    cells) :
            name \in CodecNames, tempo \in CodecBpms,
            cells \in CellChoices(getTotalSteps(grid[1], grid[2]))} :
         grid \in CodecGrids}

(* Binary payloads a link can carry: empty, an unknown version, a lone
   version byte, a header with bpm 0 and one with bpm 300, the subdivision
   index 3, and an '8n' bar whose only finger nibble is 7 *)
CraftedBinaries ==
  {<<>>, <<2, 64, 0, 120, 0>>, <<1>>, <<1, 0, 0, 0, 0>>, <<1, 0, 1, 44, 0>>,
   <<1, 48, 0, 120, 0>>,
   <<1, 0, 0, 120, 0, 128>> \o [i \in 1..17 |-> 0] \o <<112>>}

DecodeInputs ==
  {toUrlSafe(btoa(deflate(binary))) : binary \in CraftedBinaries}
    \cup {<<>>, <<"A">>, <<"e", "3", "0">>,
          <<"a", "G", "V", "s", "b", "G", "8">>,
          <<"n", "o", "t", "-", "v", "a", "l", "i", "d", "!", "!", "!">>,
          toUrlSafe(btoa(<<120>>)),
          toUrlSafe(btoa(<<120, 156, 1, 0, 0, 120, 0, 9>>))}

NotDecoded == Outcome(FALSE, Null)

(* Patterns that differ from pattern only in what the format does not carry:
   the id, the velocity of the steps, the labels and the default fingers of
   the tracks *)
CodecVariants(pattern) ==
  {[pattern EXCEPT !.id = id] : id \in {"pattern-2", "shared"}}
    \cup {[pattern EXCEPT !.tracks =
             [t \in DOMAIN pattern.tracks |->
                [pattern.tracks[t] EXCEPT !.steps =
                   [st \in DOMAIN pattern.tracks[t].steps |->
                      [pattern.tracks[t].steps[st] EXCEPT !.velocity = v]]]]] :
           v \in {{}, {64}}}
    \cup {[pattern EXCEPT !.tracks =
             [t \in DOMAIN pattern.tracks |->
                [pattern.tracks[t] EXCEPT !.label = "pad"]]]}
    \cup {[pattern EXCEPT !.tracks =
             [t \in DOMAIN pattern.tracks |->
                [pattern.tracks[t] EXCEPT
                   !.defaultFinger = [hand |-> "L", finger |-> 4]]]]}

(* encodePattern(pattern) is called *)
encode ==
  /\ codecPc = "input"
  /\ codecPattern # Null
  /\ encoded' = encodePattern(codecPattern)
  /\ codecPc' = "encoded"
  /\ UNCHANGED <<codecPattern, decoded, storeVars, syncVars>>

(* a link with the parameter chars is opened *)
receive(chars) ==
  /\ codecPc = "input"
  /\ codecPattern = Null
  /\ encoded' = Text(chars)
  /\ codecPc' = "received"
  /\ UNCHANGED <<codecPattern, decoded, storeVars, syncVars>>

(* decodePattern(encoded) is called *)
decode ==
  /\ codecPc \in {"encoded", "received"}
  /\ ~encoded.isNull
  /\ \E truncatedThrows \in BOOLEAN :
       decoded' = decodePattern(encoded.chars, truncatedThrows)
  /\ codecPc' = IF codecPc = "encoded" THEN "roundTrip" ELSE "decoded"
  /\ UNCHANGED <<codecPattern, encoded, storeVars, syncVars>>

InitCodec ==
  /\ InitStore
  /\ codecPc = "input"
  /\ codecPattern \in CodecPatterns \cup {Null}
  /\ encoded = NoText
  /\ decoded = NotDecoded

NextCodec ==
  \/ encode
  \/ \E chars \in DecodeInputs : receive(chars)
  \/ decode

SpecCodec == InitCodec /\ [][NextCodec]_vars

----------------------------------------------------------------------------
(* The pattern editor *)

(* Inputs of the editor specification *)
EditorGrids == {<<1, "16n">>, <<2, "8t">>}
EditorBars == {1, 3}
EditorSubdivisions == {"4t", "8n", "32n"}
EditorTracks == {0, 17}
EditorSteps == {0, 3, 99}   \* 99 is outside every grid
EditorFingers == {[hand |-> "R", finger |-> 5]}
EditorNames == {<<32, 32>>, <<32, 66, 32>>}

NextStore ==
  \/ \E grid \in EditorGrids :
       /\ lastEdit.count < MaxEdits
       /\ storeCreateEmptyPattern(DefaultName, grid[1], grid[2])
  \/ \E bars \in EditorBars :
       lastEdit.count < MaxEdits /\ storeSetBars(bars)
  \/ \E subdivision \in EditorSubdivisions :
       lastEdit.count < MaxEdits /\ storeSetSubdivision(subdivision)
  \/ \E t \in EditorTracks, st \in EditorSteps :
       lastEdit.count < MaxEdits /\ storeToggleStep(t, st)
  \/ \E t \in EditorTracks, st \in EditorSteps, finger \in EditorFingers :
       lastEdit.count < MaxEdits /\ storeUpdateStepFinger(t, st, finger)
  \/ \E name \in EditorNames :
       lastEdit.count < MaxEdits /\ storeSetPatternName(name)

SpecStore == Init /\ [][NextStore]_vars

(* Changing the grid of a pattern the editor has built: every subdivision,
   one and two bars, cells that share a track and cells that do not *)
ConvertCells(totalSteps) ==
  {{[trackIdx |-> 0, stepIdx |-> 0, finger |-> [hand |-> "L", finger |-> 1]],
    [trackIdx |-> 0, stepIdx |-> 1, finger |-> [hand |-> "R", finger |-> 5]],
    [trackIdx |-> 0, stepIdx |-> 2, finger |-> [hand |-> "L", finger |-> 3]],
    [trackIdx |-> 17, stepIdx |-> totalSteps - 1,
     finger |-> [hand |-> "R", finger |-> 2]]},
   {[trackIdx |-> 0, stepIdx |-> 1, finger |-> [hand |-> "R", finger |-> 5]],
    [trackIdx |-> 0, stepIdx |-> 3, finger |-> [hand |-> "L", finger |-> 2]],
    [trackIdx |-> 5, stepIdx |-> 0, finger |-> [hand |-> "R", finger |-> 1]]}}

ConvertPatterns ==
  UNION {{withCells(createPattern(DefaultName, bars, subdivision), cells) :
            cells \in ConvertCells(getTotalSteps(bars, subdivision))} :
         bars \in {1, 2}, subdivision \in Subdivisions}

InitConvert ==
  /\ currentPattern \in ConvertPatterns
  /\ InitTransport
  /\ InitSync
  /\ codecPc = "idle"
  /\ codecPattern = Null
  /\ encoded = NoText
  /\ decoded = NotDecoded

NextConvert ==
  \/ \E bars \in 1..4 :
       lastEdit.count < MaxConversions /\ storeSetBars(bars)
  \/ \E subdivision \in Subdivisions :
       lastEdit.count < MaxConversions /\ storeSetSubdivision(subdivision)

SpecConvert == InitConvert /\ [][NextConvert]_vars

(* Creating patterns on every grid, over an empty store and over a pattern
   that has active steps *)
CreateArguments ==
  {[name |-> <<65>>, bars |-> bars, subdivision |-> subdivision] :
     bars \in 1..4, subdivision \in Subdivisions}
    \cup {[name |-> <<65>>, bars |-> bars] : bars \in 1..4}
    \cup {[name |-> <<65>>], [x \in {} |-> 0]}

storeCreateEmptyPatternWith(args) ==
  storeCall("createEmptyPattern",
            IF "bars" \in DOMAIN args THEN args.bars ELSE 0,
            IF "subdivision" \in DOMAIN args THEN args.subdivision ELSE "none",
            0, 0, createEmptyPatternWith(args))

InitCreate ==
  /\ currentPattern \in
       {Null,
        withCells(createPattern(DefaultName, 2, "8t"),
                  {[trackIdx |-> 17, stepIdx |-> 11,
                    finger |-> [hand |-> "R", finger |-> 2]]})}
  /\ InitTransport
  /\ InitSync
  /\ codecPc = "idle"
  /\ codecPattern = Null
  /\ encoded = NoText
  /\ decoded = NotDecoded

NextCreate ==
  \E args \in CreateArguments :
    lastEdit.count < MaxCreations /\ storeCreateEmptyPatternWith(args)

SpecCreate == InitCreate /\ [][NextCreate]_vars

----------------------------------------------------------------------------
(* hooks/useUrlPatternLoader.ts and hooks/useUrlSync.ts *)

DEBOUNCE_MS == 500

(* clearTimeout(id) *)
clearTimeout(pending, id) == {t \in pending : t.id # id}

(* Variant: the effect arms a timer without cancelling the pending one *)
useUrlSyncEffectKeepsPending(complete, pattern) ==
  IF ~complete THEN UNCHANGED <<initialLoadRef, timeoutRef, timers>>
  ELSE IF initialLoadRef
  THEN initialLoadRef' = FALSE /\ UNCHANGED <<timeoutRef, timers>>
  ELSE /\ timeoutRef' = timeoutRef + 1
       /\ timers' = timers \cup {[id |-> timeoutRef + 1,
                                   due |-> wallClock + DEBOUNCE_MS,
                                   pattern |-> pattern]}
       /\ UNCHANGED initialLoadRef

(* One run of the effect of useUrlSync, for a render that sees
   urlCheckComplete = complete and currentPattern = pattern.  The cleanup
   of the run before it and the clearTimeout of this run cancel the same
   timer; setTimeout returns an id it has not returned before. *)
useUrlSyncEffect(complete, pattern) ==
  IF ~complete THEN UNCHANGED <<initialLoadRef, timeoutRef, timers>>
  ELSE IF initialLoadRef
  THEN initialLoadRef' = FALSE /\ UNCHANGED <<timeoutRef, timers>>
  ELSE /\ timeoutRef' = timeoutRef + 1
       /\ timers' = clearTimeout(timers, timeoutRef)
                      \cup {[id |-> timeoutRef + 1,
                             due |-> wallClock + DEBOUNCE_MS,
                             pattern |-> pattern]}
       /\ UNCHANGED initialLoadRef

(* The effect of useUrlPatternLoader, run once when the page is mounted,
   and the render that follows it *)
urlCheck ==
  /\ ~urlCheckComplete
  /\ LET encodedPattern == urlParam
         pattern == IF encodedPattern.isNull \/ encodedPattern.chars = <<>>
                    THEN Null
                    ELSE decodePattern(encodedPattern.chars, TRUE).value
         loaded == IF pattern # Null THEN pattern ELSE currentPattern
     IN /\ currentPattern' = loaded
        /\ urlParam' = IF pattern # Null THEN NoText ELSE urlParam
        /\ urlCheckComplete' = TRUE
        /\ useUrlSyncEffect(TRUE, loaded)
        /\ rendered' = [complete |-> TRUE, pattern |-> loaded]
        /\ effects' = {}
  /\ lastSync' = [op |-> "check", mutatedAt |-> lastSync.mutatedAt]
  /\ UNCHANGED <<wallClock, isPlaying, isPaused, currentStepX2, bpm,
                 transportBpm, pausedPosition, isLooping, scheduleId, timeline,
                 position, transportState, drawQueue, isAudioReady, lastTick,
                 runEnded, lastCall, lastEdit, codecVars>>

(* A call of the pattern store while the page is mounted: the components
   that read currentPattern are rendered again and the effect of useUrlSync
   runs when the stored value is another one *)
syncCall(op, trackIndex, stepIndex, newPattern) ==
  /\ storeSet(op, 0, "none", trackIndex, stepIndex, newPattern)
  /\ IF newPattern = Null /\ currentPattern = Null
     THEN /\ UNCHANGED <<initialLoadRef, timeoutRef, timers>>
          /\ lastSync' = [op |-> "none", mutatedAt |-> lastSync.mutatedAt]
     ELSE /\ useUrlSyncEffect(urlCheckComplete, newPattern)
          /\ lastSync' = [op |-> "mutation", mutatedAt |-> wallClock]
  /\ rendered' = [complete |-> urlCheckComplete, pattern |-> newPattern]
  /\ effects' = effects \ {"initialize", "sync"}
  /\ UNCHANGED <<urlCheckComplete, urlParam, wallClock>>

(* set({ currentPattern: null }) *)
resetPatternOp == Null

(* The callback given to setTimeout is run, at its time or later *)
timerFires ==
  \E t \in timers :
    /\ t.due <= wallClock
    /\ timers' = timers \ {t}
    /\ urlParam' = IF t.pattern = Null THEN NoText
                   ELSE IF encodePattern(t.pattern).isNull THEN urlParam
                   ELSE encodePattern(t.pattern)
    /\ lastSync' = [op |-> "write", mutatedAt |-> lastSync.mutatedAt]
    /\ UNCHANGED <<urlCheckComplete, initialLoadRef, timeoutRef, wallClock,
                   rendered, effects, storeVars, codecVars>>

timePasses ==
  /\ wallClock + (DEBOUNCE_MS \div 2) <= MaxSyncTime
  /\ wallClock' = wallClock + (DEBOUNCE_MS \div 2)
  /\ lastSync' = [op |-> "none", mutatedAt |-> lastSync.mutatedAt]
  /\ UNCHANGED <<urlCheckComplete, initialLoadRef, timeoutRef, timers, urlParam,
                 rendered, effects, storeVars, codecVars>>

(* Links the page can be opened with: none, one made by encodePattern and
   one that does not decode *)
SyncLinks ==
  {NoText, Text(<<"A">>),
   encodePattern(withCells(createPattern(<<65>>, 1, "8n"),
                           {[trackIdx |-> 3, stepIdx |-> 1,
                             finger |-> [hand |-> "L", finger |-> 3]]}))}

SyncCells == {<<17, 3>>}

InitPage ==
  /\ currentPattern = Null
  /\ InitTransport
  /\ urlCheckComplete = FALSE
  /\ initialLoadRef = TRUE
  /\ timeoutRef = 0
  /\ timers = {}
  /\ urlParam \in SyncLinks
  /\ wallClock = 0
  /\ lastSync = NoSync
  /\ rendered = [complete |-> FALSE, pattern |-> Null]
  /\ effects = {"loader", "initialize", "sync"}
  /\ codecPc = "idle"
  /\ codecPattern = Null
  /\ encoded = NoText
  /\ decoded = NotDecoded

NextSync ==
  \/ urlCheck
  \/ /\ lastEdit.count < MaxEdits
     /\ syncCall("createEmptyPattern", 0, 0,
                 createEmptyPatternOp(DefaultName, 1, "16n"))
  \/ \E cell \in SyncCells :
       /\ lastEdit.count < MaxEdits
       /\ syncCall("toggleStep", cell[1], cell[2],
                   toggleStepOp(currentPattern, cell[1], cell[2]))
  \/ /\ lastEdit.count < MaxEdits
     /\ syncCall("resetPattern", 0, 0, resetPatternOp)
  \/ timerFires
  \/ timePasses

SpecSync == InitPage /\ [][NextSync]_vars

(* The page at startup, effect by effect: the components are rendered with
   the values of the store, the effects of a render run one by one with the
   values of that render, in any order, and all of them before the next
   render. *)

(* setPattern: set({ currentPattern: pattern }) *)
setPattern(pattern) ==
  /\ currentPattern' = pattern
  /\ UNCHANGED <<isPlaying, isPaused, currentStepX2, bpm, transportBpm,
                 pausedPosition, isLooping, scheduleId, timeline, position,
                 transportState, drawQueue, isAudioReady, lastTick, runEnded,
                 lastCall, lastEdit, codecVars>>

(* The effect of useUrlPatternLoader, run once after the first render *)
loaderEffect ==
  /\ "loader" \in effects
  /\ effects' = effects \ {"loader"}
  /\ LET encodedPattern == urlParam
         pattern == IF encodedPattern.isNull \/ encodedPattern.chars = <<>>
                    THEN Null
                    ELSE decodePattern(encodedPattern.chars, TRUE).value
     IN /\ setPattern(IF pattern # Null THEN pattern ELSE currentPattern)
        /\ urlParam' = IF pattern # Null THEN NoText ELSE urlParam
        /\ urlCheckComplete' = TRUE
  /\ lastSync' = [op |-> "check", mutatedAt |-> lastSync.mutatedAt]
  /\ UNCHANGED <<initialLoadRef, timeoutRef, timers, wallClock, rendered>>

(* Variant: the sequencer creates its pattern without waiting for the check *)
initializeEffectEager ==
  /\ "initialize" \in effects
  /\ effects' = effects \ {"initialize"}
  /\ IF rendered.pattern = Null
     THEN setPattern(createEmptyPatternOp(DefaultName, 1, "16n"))
     ELSE setPattern(currentPattern)
  /\ lastSync' = [op |-> "initialize", mutatedAt |-> lastSync.mutatedAt]
  /\ UNCHANGED <<urlCheckComplete, initialLoadRef, timeoutRef, timers, urlParam,
                 wallClock, rendered>>

(* The sequencer's effect: if (urlCheckComplete && !currentPattern)
   createEmptyPattern(), with the values of its render *)
initializeEffect ==
  /\ "initialize" \in effects
  /\ effects' = effects \ {"initialize"}
  /\ IF rendered.complete /\ rendered.pattern = Null
     THEN setPattern(createEmptyPatternOp(DefaultName, 1, "16n"))
     ELSE setPattern(currentPattern)
  /\ lastSync' = [op |-> "initialize", mutatedAt |-> lastSync.mutatedAt]
  /\ UNCHANGED <<urlCheckComplete, initialLoadRef, timeoutRef, timers, urlParam,
                 wallClock, rendered>>

(* The effect of useUrlSync, with the values of its render *)
syncEffect ==
  /\ "sync" \in effects
  /\ effects' = effects \ {"sync"}
  /\ useUrlSyncEffect(rendered.complete, rendered.pattern)
  /\ lastSync' = [op |-> "effect", mutatedAt |-> lastSync.mutatedAt]
  /\ UNCHANGED <<urlCheckComplete, urlParam, wallClock, rendered, storeVars,
                 codecVars>>

(* A value the components subscribe to has changed: they are rendered
   again, and the effects that depend on urlCheckComplete and currentPattern
   are due *)
render ==
  /\ effects = {}
  /\ rendered # [complete |-> urlCheckComplete, pattern |-> currentPattern]
  /\ rendered' = [complete |-> urlCheckComplete, pattern |-> currentPattern]
  /\ effects' = {"initialize", "sync"}
  /\ lastSync' = [op |-> "render", mutatedAt |-> lastSync.mutatedAt]
  /\ UNCHANGED <<urlCheckComplete, initialLoadRef, timeoutRef, timers, urlParam,
                 wallClock, storeVars, codecVars>>

(* The user changes the pattern shown in the grid *)
mutation(op, trackIndex, stepIndex, newPattern) ==
  /\ currentPattern # Null
  /\ lastEdit.count < MaxMutations
  /\ storeSet(op, 0, "none", trackIndex, stepIndex, newPattern)
  /\ lastSync' = [op |-> "mutation", mutatedAt |-> wallClock]
  /\ UNCHANGED <<urlCheckComplete, initialLoadRef, timeoutRef, timers, urlParam,
                 wallClock, rendered, effects>>

NextStartup ==
  \/ loaderEffect
  \/ initializeEffect
  \/ syncEffect
  \/ render
  \/ \E cell \in SyncCells :
       mutation("toggleStep", cell[1], cell[2],
                toggleStepOp(currentPattern, cell[1], cell[2]))
  \/ mutation("resetPattern", 0, 0, resetPatternOp)
  \/ timerFires
  \/ timePasses

SpecStartup == InitPage /\ [][NextStartup]_vars

----------------------------------------------------------------------------
(* Properties of the transport *)

(* C1: in the state stop() returns in, whatever state it was called in
   (Stopped, Playing or Paused, cued or not), currentStep is 0, isPlaying and
   isPaused are false, pausedPosition is 0 and the clock's position is 0. *)
C1_StopResets ==
  lastCall.op = "stop" =>
    /\ currentStepX2 = 0
    /\ ~isPlaying
    /\ ~isPaused
    /\ pausedPosition = 0
    /\ position = 0

(* stop() has returned from a call made while already Stopped *)
C1_Witness ==
  /\ lastCall.op = "stop"
  /\ lastCall.from = "Stopped"
  /\ currentPattern # Null

(* C2: at most one repeating event is registered at any time, and none is
   registered (and the handle is null) unless the transport is Playing. *)
C2_OneSchedule ==
  /\ Cardinality(timeline) <= 1
  /\ (scheduleId # 0 => isPlaying)
  /\ (~isPlaying => timeline = {})

(* play() has registered the event again after a pause *)
C2_Witness ==
  /\ lastCall.op = "play"
  /\ lastCall.from = "Paused"
  /\ Cardinality(timeline) = 1
  /\ scheduleId # 0

(* C3: when play() directly follows a pause() made while Playing, the
   currentStep it sets is floor((elapsed / stepDuration) mod totalSteps) for
   the position pause() read. *)
C3_ResumeStep ==
  [][(lastCall.op = "pause" /\ lastCall.from = "Playing" /\ lastCall'.op = "play")
       => currentStepX2' =
            2 * ((lastCall.at \div stepDuration(bpm, subdivisionOf(currentPattern)))
                   % totalStepsOf(currentPattern))]_vars

(* play() has resumed a run that was paused inside a step, past step 0 *)
C3_Witness ==
  /\ lastCall.op = "play"
  /\ lastCall.from = "Paused"
  /\ position % stepDuration(bpm, subdivisionOf(currentPattern)) # 0
  /\ currentStepX2 > 0

(* C4: play() called while Playing and pause() called while not Playing
   change neither the flags, currentStep, pausedPosition, bpm, the clock
   nor the registered schedule. *)
C4_InvalidTransitionsAreNoOps ==
  [][((lastCall'.op = "play" /\ isPlaying) \/ (lastCall'.op = "pause" /\ ~isPlaying))
       => UNCHANGED <<isPlaying, isPaused, currentStepX2, pausedPosition, bpm,
                      position, transportState, timeline, scheduleId>>]_vars

(* play() has returned from a call made while Playing, the clock under way *)
C4_Witness ==
  /\ lastCall.op = "play"
  /\ lastCall.from = "Playing"
  /\ position > 0

(* C5: with looping disabled, a tick delivered after the tick of the last
   step and before the next play() triggers no pad. *)
C5_NoAudioAfterFinalTick ==
  (lastTick.fired /\ lastTick.afterFinal) => lastTick.pads = {}

(* C6: while neither the tempo nor the grid has changed since play()
   registered the schedule, the step a tick triggers is
   floor((elapsed / stepDuration) mod totalSteps) at the tick's position. *)
C6_TickFollowsClock ==
  (lastTick.fired /\ lastTick.aligned) => lastTick.step = lastTick.clockStep

(* C7: with no pattern loaded, play(), pause(), stop(), seekForward(),
   seekBackward() and setPlayhead() change neither the flags, currentStep,
   the clock nor the schedule. *)
C7_NoPatternNoOp ==
  [][(currentPattern = Null
      /\ lastCall'.op \in {"play", "pause", "stop", "seekForward",
                           "seekBackward", "setPlayhead"})
       => UNCHANGED <<isPlaying, isPaused, currentStepX2, position,
                      transportState, timeline, scheduleId>>]_vars

(* C17 as stated: play() called in the Stopped state begins at position 0:
   the clock is at 0, currentStep is 0 and the first step triggered is
   step 0, whatever seek or setPlayhead calls were made while Stopped. *)
C17_PlayStartsAtZero ==
  [][(lastCall'.op = "play" /\ ~isPlaying /\ ~isPaused)
       => /\ position' = 0
          /\ currentStepX2' = 0
          /\ \A e \in timeline' : e.nextStepToPlay = 0]_vars

(* C17: play() called in the Stopped state begins at the clock's position,
   which is 0 unless a seek or setPlayhead call has cued it: the clock is
   not rewound, currentStep is floor((position / stepDuration) mod
   totalSteps) and the first step triggered is that step (the next one when
   the position is inside a step); from position 0 these are step 0. *)
C17_PlayStartsAtClock ==
  [][(lastCall'.op = "play" /\ ~isPlaying /\ ~isPaused)
       => LET stepDur == stepDuration(bpm, subdivisionOf(currentPattern))
              totalSteps == totalStepsOf(currentPattern)
              step == (position \div stepDur) % totalSteps
          IN /\ position' = position
             /\ currentStepX2' = 2 * step
             /\ timeline' # {}
             /\ \A e \in timeline' :
                  e.nextStepToPlay = IF position % stepDur = 0 THEN step
                                     ELSE (step + 1) % totalSteps
             /\ (position = 0 =>
                   /\ currentStepX2' = 0
                   /\ \A e \in timeline' : e.nextStepToPlay = 0 /\ e.time = 0)]_vars

(* play() has started a run from a playhead cued while Stopped *)
C17_Witness ==
  /\ lastCall.op = "play"
  /\ lastCall.from = "Stopped"
  /\ position > 0
  /\ currentStepX2 > 0
  /\ \E e \in timeline : 2 * e.nextStepToPlay = currentStepX2

(* C18: pause() called while Playing stores in pausedPosition the position
   the clock has at the call, and play() called while Paused sets the clock
   to the stored pausedPosition. *)
C18_ExactPausePosition ==
  [][/\ (lastCall'.op = "pause" /\ isPlaying) => pausedPosition' = position
     /\ (lastCall'.op = "play" /\ ~isPlaying /\ isPaused)
          => position' = pausedPosition]_vars

(* pause() has stored a position inside a step *)
C18_Witness ==
  /\ lastCall.op = "pause"
  /\ lastCall.from = "Playing"
  /\ isPaused
  /\ pausedPosition % stepDuration(bpm, subdivisionOf(currentPattern)) # 0

(* C19: with looping disabled, a transport that is Playing eventually is
   Stopped with currentStep 0 without any call by the user: a run, started
   from Stopped or resumed from Paused, that the user does not pause ends in
   Stopped at step 0. *)
C19_RunTerminates ==
  (isPlaying /\ ~isLooping)
    ~> (isPaused \/ (~isPlaying /\ ~isPaused /\ currentStepX2 = 0))

(* the deferred stop() of a run's final tick has run *)
C19_Witness ==
  /\ runEnded
  /\ ~isLooping
  /\ ~isPlaying
  /\ ~isPaused
  /\ currentStepX2 = 0
  /\ position = 0
  /\ lastCall = NoCall

(* C20: with a pattern loaded and the transport not Playing, seekForward,
   seekBackward and setPlayhead leave currentStep an integer within
   0..totalSteps-1 and the clock at exactly currentStep * stepDuration, on
   every grid. *)
C20_SeekStepAligned ==
  ( /\ lastCall.op \in {"seekForward", "seekBackward", "setPlayhead"}
    /\ lastCall.from # "Playing"
    /\ currentPattern # Null )
    => /\ currentStepX2 % 2 = 0
       /\ (currentStepX2 \div 2) \in 0..(totalStepsOf(currentPattern) - 1)
       /\ position = (currentStepX2 \div 2)
                        * stepDuration(bpm, subdivisionOf(currentPattern))

(* C21: after any sequence of setBpm, adjustBpm and reset, bpm is a whole
   number of 40..200; setBpm(v) stores v limited to that range, adjustBpm(d)
   the limited sum, reset() the default, and the clock's rate is set to the
   stored value. *)
C21_BpmClamped ==
  [][ LET limited(v) == IF v < 40 THEN 40 ELSE IF v > 200 THEN 200 ELSE v
      IN /\ bpm \in 40..200 /\ bpm' \in 40..200
         /\ transportBpm = bpm /\ transportBpm' = bpm'
         /\ lastCall'.op = "setBpm" => bpm' = limited(lastCall'.at)
         /\ lastCall'.op = "adjustBpm" => bpm' = limited(bpm + lastCall'.at)
         /\ lastCall'.op = "reset" => bpm' = 120
         /\ lastCall'.op \notin {"setBpm", "adjustBpm", "reset"} => bpm' = bpm
    ]_vars

(* setBpm(250) called while Playing *)
C21_Witness ==
  /\ lastCall = [op |-> "setBpm", from |-> "Playing", at |-> 250]
  /\ bpm = 200
  /\ transportBpm = 200

(* C28: once stop() or pause() has returned, no tick and no deferred frame
   callback registered before it changes currentStep or any other state of
   the transport, until the next call. *)
C28_QuietAfterStop ==
  [][ ( /\ lastCall.op \in {"stop", "pause"} /\ lastCall.from = "Playing"
        /\ lastCall'.op = "none" )
        => UNCHANGED <<isPlaying, isPaused, currentStepX2, pausedPosition,
                       position, transportState, scheduleId>> ]_vars

(* C29: the stop deferred by the final tick of a non-looping run ends only
   that run: a playback started after that tick, whose own final tick has
   not been invoked, is not ended by a step that is not a call. *)
C29_DeferredStopEndsItsRun ==
  [][ (isPlaying /\ ~runEnded /\ lastCall'.op = "none") => isPlaying' ]_vars

(* C30: whenever a pattern is loaded, currentStep is a whole number with
   0 <= currentStep < totalSteps of the current pattern. *)
C30_StepInRange ==
  currentPattern # Null
    => /\ currentStepX2 % 2 = 0
       /\ (currentStepX2 \div 2) \in 0..(totalStepsOf(currentPattern) - 1)

(* C31: on every tick, if a pattern is loaded and audio is ready, playPad is
   invoked with the tick's time for exactly the tracks whose step at the
   tick's index is active in the pattern as it is then, and for no track
   otherwise; the callback's step index advances by one (modulo the step
   count) whether or not audio is ready. *)
C31_TickTriggersActiveCells ==
  [][lastTick'.fired =>
       /\ lastTick'.time = position
       /\ lastTick'.pads =
            IF currentPattern # Null /\ isAudioReady
            THEN {currentPattern.tracks[u].padId : u \in
                    {t \in 0..17 :
                       /\ lastTick'.step < totalStepsOf(currentPattern)
                       /\ currentPattern.tracks[t].steps[lastTick'.step].active}}
            ELSE {}
       /\ \E e \in timeline :
            /\ e.time = position
            /\ e.nextStepToPlay = lastTick'.step
            /\ \E f \in timeline' :
                 /\ f.id = e.id
                 /\ f.nextStepToPlay =
                      (e.nextStepToPlay + 1) % totalStepsOf(currentPattern)]_vars

C31_Witness ==
  /\ currentPattern # Null
  /\ lastTick.fired
  /\ lastTick.step = 0
  /\ lastTick.pads = {currentPattern.tracks[0].padId}
  /\ position > 0

(* C32: play() registers the callback with interval stepDuration, first due
   when the time left to the next step boundary has passed from the
   starting position (at once on a boundary); the first tick triggers the
   step of the starting position on a boundary and the following step
   modulo totalSteps otherwise. *)
C32_FirstTickAtNextBoundary ==
  [][(lastCall'.op = "play" /\ ~isPlaying /\ isPlaying') =>
       LET stepDur == stepDuration(bpm, subdivisionOf(currentPattern))
           totalSteps == totalStepsOf(currentPattern)
           positionInStep == position' % stepDur
           startStep == (position' \div stepDur) % totalSteps
       IN \E e \in timeline' :
            /\ e.id = scheduleId'
            /\ e.interval = stepDur
            /\ e.time = IF positionInStep = 0 THEN position'
                        ELSE position' + (stepDur - positionInStep)
            /\ e.nextStepToPlay = IF positionInStep = 0 THEN startStep
                                  ELSE (startStep + 1) % totalSteps]_vars

(* C33: while the transport is Playing with looping enabled and the step
   count unchanged, each tick hands the following step (modulo totalSteps)
   to the next tick and defers the commit of its own step behind the
   commits already deferred, a deferred commit sets currentStep to its
   step, and a run none of whose ticks has asked for the stop leaves
   Playing only by a call. *)
C33_LoopingRunGoesOn ==
  [][(isPlaying /\ isLooping) =>
       /\ lastTick'.fired =>
            /\ \E e \in timeline, f \in timeline' :
                 /\ e.time = position
                 /\ e.nextStepToPlay = lastTick'.step
                 /\ f.id = e.id
                 /\ f.nextStepToPlay =
                      (lastTick'.step + 1) % totalStepsOf(currentPattern)
            /\ drawQueue' = Append(drawQueue, [kind |-> "commit",
                                               step |-> lastTick'.step])
       /\ (/\ drawQueue # <<>>
           /\ drawQueue' = Tail(drawQueue)
           /\ Head(drawQueue).kind = "commit")
            => currentStepX2' = 2 * Head(drawQueue).step
       /\ (~runEnded /\ lastCall'.op = "none") => isPlaying']_vars

(* C34: a change of the tempo made while the transport is Paused, or Stopped
   with the playhead cued, does not move the playhead: the play() that
   follows starts at the step that was current before the change. *)
C34_BpmKeepsPlayhead ==
  [][(/\ lastCall.op = "setBpm"
      /\ lastCall.from \in {"Paused", "Stopped"}
      /\ lastCall'.op = "play"
      /\ currentPattern # Null
      /\ drawQueue = <<>>)
       => currentStepX2' = currentStepX2]_vars

(* C38: isPlaying and isPaused are never both true, so the transport is in
   exactly one of Stopped, Playing and Paused; while it is Playing,
   pausedPosition is 0 unless a seek or setPlayhead call has been made
   since play(). *)
C38_OneTransportState ==
  [][/\ ~(isPlaying' /\ isPaused')
     /\ isPlaying' =>
          \/ pausedPosition' = 0
          \/ lastCall'.op \in {"seekForward", "seekBackward", "setPlayhead"}
          \/ (isPlaying /\ pausedPosition # 0)]_vars

(* play() has resumed from a pause made inside a run and the store holds no
   paused position *)
C38_Witness ==
  /\ isPlaying
  /\ ~isPaused
  /\ lastCall.op = "play"
  /\ lastCall.from = "Paused"
  /\ position > 0
  /\ pausedPosition = 0

----------------------------------------------------------------------------
(* Properties of the codec *)

SameContent(p, q) ==
  /\ q.name = p.name
  /\ q.bpm = p.bpm
  /\ q.bars = p.bars
  /\ q.subdivision = p.subdivision
  /\ \A t \in 0..17 :
       /\ q.tracks[t].padId = p.tracks[t].padId
       /\ Length(q.tracks[t].steps) = Length(p.tracks[t].steps)
       /\ \A st \in DOMAIN p.tracks[t].steps :
            /\ st \in DOMAIN q.tracks[t].steps
            /\ q.tracks[t].steps[st].active = p.tracks[t].steps[st].active
            /\ q.tracks[t].steps[st].finger = p.tracks[t].steps[st].finger

ValidPattern(q) ==
  /\ q.bars \in 1..4
  /\ q.bpm \in MIN_BPM..MAX_BPM
  /\ DOMAIN q.tracks = 0..17
  /\ \A t \in 0..17 :
       /\ q.tracks[t].padId = PAD_IDS[t]
       /\ Length(q.tracks[t].steps) = getTotalSteps(q.bars, q.subdivision)
       /\ \A st \in DOMAIN q.tracks[t].steps :
            LET step == q.tracks[t].steps[st]
            IN IF step.active
               THEN /\ step.finger.hand \in {"L", "R"}
                    /\ step.finger.finger \in 1..5
               ELSE step.finger = undefinedFinger

(* some stage of decoding the parameter fails: the Base64 text is malformed,
   the compressed stream is corrupt or cut short, or the payload does not
   begin with the format version *)
StageFails(chars) ==
  LET binaryString == atob(fromUrlSafe(chars))
  IN \/ binaryString.threw
     \/ \A f \in BOOLEAN :
          LET decompressed == inflate(binaryString.bytes, f)
          IN \/ decompressed.threw
             \/ decompressed.undefined
             \/ ByteAt(decompressed.bytes, 0) # BINARY_VERSION

(* C8: decoding what encodePattern made of a valid pattern gives a pattern
   with the same name, bpm, bars, subdivision, track order and step count
   and the same (active, finger) at every step. *)
C8_RoundTrip ==
  (codecPc = "roundTrip") =>
    /\ decoded.value # Null
    /\ SameContent(codecPattern, decoded.value)

(* C9: whatever decodePattern returns other than null is a valid pattern:
   bars 1..4, bpm 40..200, 18 tracks in pad order, every track
   bars*4*stepsPerBeat steps long, a finger (hand L or R, finger 1..5)
   exactly on the active steps. *)
C9_DecodedIsValid ==
  (codecPc \in {"roundTrip", "decoded"} /\ decoded.value # Null)
    => ValidPattern(decoded.value)

(* C11: for a pattern whose name is longer than 255 UTF-8 bytes (and whose
   subdivision the format can express), decoding what encodePattern made
   gives the name cut to its first 255 bytes and the same bpm, bars,
   subdivision and (active, finger) at every step of every track. *)
C11_LongNameKeepsContent ==
  (/\ codecPc = "roundTrip"
   /\ Len(utf8Encode(codecPattern.name)) > 255
   /\ SUBDIVISION_MAP(codecPattern.subdivision) # Undefined) =>
    /\ decoded.value # Null
    /\ SameContent([codecPattern EXCEPT
                       !.name = utf8Decode(SubSeq(utf8Encode(codecPattern.name),
                                                  1, 255))],
                   decoded.value)

(* C10: decodePattern never throws, and returns null whenever a stage of
   the decoding fails. *)
C10_DecodeNeverThrows ==
  (codecPc \in {"roundTrip", "decoded"}) =>
    /\ ~decoded.threw
    /\ (StageFails(encoded.chars) => decoded.value = Null)

(* the empty string has been decoded *)
C10_Witness ==
  /\ codecPc = "decoded"
  /\ encoded.chars = <<>>
  /\ StageFails(encoded.chars)

(* C25: the encoded string does not depend on the pattern id, nor on the
   velocity of the steps, the labels or the default fingers of the tracks;
   the id of a decoded pattern is the decoder's, not the input's. *)
C25_IdNotEncoded ==
  (codecPc \in {"encoded", "roundTrip"})
    => /\ \A variant \in CodecVariants(codecPattern) :
            variant # codecPattern => encodePattern(variant) = encoded
       /\ (codecPc = "roundTrip" /\ decoded.value # Null)
            => (decoded.value.id = "shared" /\ codecPattern.id = "pattern")

(* a pattern with active steps has been encoded and decoded again *)
C25_Witness ==
  /\ codecPc = "roundTrip"
  /\ ~encoded.isNull
  /\ decoded.value # Null
  /\ codecPattern.tracks[17].steps[Length(codecPattern.tracks[17].steps) - 1].active
  /\ Cardinality(CodecVariants(codecPattern) \ {codecPattern}) = 6

----------------------------------------------------------------------------
(* Properties of the URL synchronisation *)

(* C26: once the URL check is complete, at most one rewrite of the URL is
   pending; a change of the pattern cancels the pending rewrite and arms one
   for 500 ms later; a rewrite happens only when 500 ms have passed without
   a change, and it writes the encoding of the pattern that is current
   then, or removes the parameter when no pattern is loaded. *)
C26_DebouncedRewrite ==
  /\ Cardinality(timers) <= 1
  /\ (~urlCheckComplete) => timers = {}
  /\ (lastSync.op = "mutation" /\ urlCheckComplete)
       => timers = {[id |-> timeoutRef, due |-> wallClock + 500,
                     pattern |-> currentPattern]}
  /\ lastSync.op = "write"
       => /\ wallClock >= lastSync.mutatedAt + 500
          /\ timers = {}
          /\ IF currentPattern = Null THEN urlParam.isNull
             ELSE ~encodePattern(currentPattern).isNull
                    => urlParam = encodePattern(currentPattern)

(* a rewrite armed by one change was cancelled by a later change, and the
   rewrite armed by that one has written the pattern *)
C26_Witness ==
  /\ lastSync.op = "write"
  /\ timeoutRef >= 2
  /\ currentPattern # Null
  /\ currentPattern.tracks[17].steps[3].active
  /\ urlParam = encodePattern(currentPattern)
  /\ lastSync.mutatedAt = 250

(* C36: at startup the default empty pattern is created only once the URL
   check is complete and only when the store holds no pattern, in every
   order of the effects, so a pattern decoded from the link is not replaced
   by it; the check ends with urlCheckComplete set whether the link is
   absent, valid or invalid. *)
C36_DefaultOnlyAfterCheck ==
  [][/\ (lastSync'.op = "initialize" /\ currentPattern' # currentPattern)
          => (urlCheckComplete /\ currentPattern = Null)
     /\ lastSync'.op = "check" => urlCheckComplete'
     /\ (lastSync'.op = "check" /\ ~urlParam.isNull
           /\ decodePattern(urlParam.chars, TRUE).value # Null)
          => currentPattern' = decodePattern(urlParam.chars, TRUE).value]_vars

(* the page was opened with a valid link: the check is complete, every
   effect of the render that saw it has run, and the store holds the
   pattern of the link *)
C36_Witness ==
  /\ urlCheckComplete
  /\ rendered.complete
  /\ effects = {}
  /\ lastEdit.count = 0
  /\ currentPattern # Null
  /\ currentPattern.subdivision = "8n"
  /\ currentPattern.tracks[3].steps[1].active

(* C37: no rewrite of the URL is armed before the URL check is complete,
   nor by the initial load (the pattern of the link, or the initial empty
   pattern): the first rewrite is armed by a change the user makes after
   it. *)
C37_NoRewriteOnInitialLoad ==
  /\ ~urlCheckComplete => (timers = {} /\ timeoutRef = 0)
  /\ lastEdit.count = 0 => (timers = {} /\ timeoutRef = 0)

----------------------------------------------------------------------------
(* Properties of the pattern store *)

(* C12: whenever a pattern is loaded it has exactly 18 tracks and every
   track has bars * 4 * stepsPerBeat(subdivision) steps, for the pattern's
   current bars and subdivision. *)
C12_StepCount ==
  currentPattern # Null =>
    /\ DOMAIN currentPattern.tracks = 0..17
    /\ \A t \in 0..17 :
         DOMAIN currentPattern.tracks[t].steps =
           0..(getTotalSteps(currentPattern.bars, currentPattern.subdivision) - 1)

(* setSubdivision has converted a pattern of more than one bar that holds an
   active step, after setBars or createEmptyPattern gave it its length *)
C12_Witness ==
  /\ lastEdit.op = "setSubdivision"
  /\ lastEdit.before # Null
  /\ currentPattern.subdivision # lastEdit.before.subdivision
  /\ currentPattern.bars > 1
  /\ \E t \in 0..17 : \E st \in DOMAIN lastEdit.before.tracks[t].steps :
       lastEdit.before.tracks[t].steps[st].active

(* C13: every step of every track has a finger exactly when it is active; a
   step that toggleStep activated carries its track's defaultFinger; and
   updateStepFinger leaves every track's defaultFinger as it was. *)
C13_FingerIffActive ==
  currentPattern # Null =>
    /\ \A t \in 0..17 : \A st \in DOMAIN currentPattern.tracks[t].steps :
         (currentPattern.tracks[t].steps[st].finger # undefinedFinger)
           <=> currentPattern.tracks[t].steps[st].active
    /\ (/\ lastEdit.op = "toggleStep"
        /\ lastEdit.before # Null
        /\ ~lastEdit.before.tracks[lastEdit.trackIndex]
              .steps[lastEdit.stepIndex].active)
         => LET track == currentPattern.tracks[lastEdit.trackIndex]
            IN /\ track.steps[lastEdit.stepIndex].active
               /\ track.steps[lastEdit.stepIndex].finger = track.defaultFinger
    /\ (lastEdit.op = "updateStepFinger" /\ lastEdit.before # Null)
         => \A t \in 0..17 :
              currentPattern.tracks[t].defaultFinger
                = lastEdit.before.tracks[t].defaultFinger

(* updateStepFinger has changed the finger of a step that toggleStep had
   activated with another one *)
C13_Witness ==
  /\ lastEdit.op = "updateStepFinger"
  /\ lastEdit.prev.op = "toggleStep"
  /\ lastEdit.before # Null
  /\ LET track == currentPattern.tracks[lastEdit.trackIndex]
     IN /\ track.steps[lastEdit.stepIndex].active
        /\ track.steps[lastEdit.stepIndex].finger # track.defaultFinger

(* the steps-per-beat ratio to / from is an integer greater than 1 *)
Subdivides(from, to) ==
  /\ getStepsPerBeatX2(to) > getStepsPerBeatX2(from)
  /\ getStepsPerBeatX2(to) % getStepsPerBeatX2(from) = 0

(* the ratio is neither an integer nor the reciprocal of one *)
TripletConversion(from, to) ==
  /\ getStepsPerBeatX2(to) % getStepsPerBeatX2(from) # 0
  /\ getStepsPerBeatX2(from) % getStepsPerBeatX2(to) # 0

SameCells(p, q) ==
  \A t \in 0..17 :
    /\ DOMAIN q.tracks[t].steps = DOMAIN p.tracks[t].steps
    /\ \A st \in DOMAIN p.tracks[t].steps :
         /\ q.tracks[t].steps[st].active = p.tracks[t].steps[st].active
         /\ q.tracks[t].steps[st].finger = p.tracks[t].steps[st].finger

(* C14: setSubdivision(B) followed by setSubdivision(A), for a pattern in
   subdivision A and B / A an integer greater than 1, restores the (active,
   finger) pair of every step of every track. *)
C14_SubdivideAndBack ==
  (/\ lastEdit.op = "setSubdivision"
   /\ lastEdit.prev.op = "setSubdivision"
   /\ lastEdit.prev.before # Null
   /\ Subdivides(lastEdit.prev.before.subdivision, lastEdit.prev.subdivision)
   /\ lastEdit.subdivision = lastEdit.prev.before.subdivision)
    => SameCells(lastEdit.prev.before, currentPattern)

(* a pattern with an active step at an odd index has been subdivided and
   combined back *)
C14_Witness ==
  /\ lastEdit.op = "setSubdivision"
  /\ lastEdit.prev.op = "setSubdivision"
  /\ lastEdit.prev.before # Null
  /\ Subdivides(lastEdit.prev.before.subdivision, lastEdit.prev.subdivision)
  /\ lastEdit.subdivision = lastEdit.prev.before.subdivision
  /\ lastEdit.prev.before.tracks[0].steps[1].active
  /\ lastEdit.before.tracks[0].steps[1].active = FALSE
  /\ currentPattern.tracks[0].steps[1].active

(* the index round((i / oldStepsPerBeat) * newStepsPerBeat) of old step i *)
newIndexOf(i, from, to) ==
  RoundDiv(i * getStepsPerBeatX2(to), getStepsPerBeatX2(from))

(* the active steps of an old track that are mapped to new index n *)
sourcesOf(track, n, from, to) ==
  {i \in DOMAIN track.steps :
     track.steps[i].active /\ newIndexOf(i, from, to) = n}

(* every step of the new track is the lowest active old step mapped to it,
   or inactive when none is, and the track has the new step count *)
FirstWriterWins(old, new, from, to, bars) ==
  /\ DOMAIN new.steps = 0..(getTotalSteps(bars, to) - 1)
  /\ \A n \in DOMAIN new.steps :
       IF sourcesOf(old, n, from, to) = {}
       THEN ~new.steps[n].active /\ new.steps[n].finger = undefinedFinger
       ELSE /\ new.steps[n].active
            /\ new.steps[n].finger
                 = old.steps[Min(sourcesOf(old, n, from, to))].finger

(* C15 as stated: in a triplet conversion every active old step i is found
   at new index round((i / oldStepsPerBeat) * newStepsPerBeat), collisions
   keep the lowest old index, and the tracks have the new step count. *)
C15_EveryStepMapped ==
  (/\ lastEdit.op = "setSubdivision"
   /\ lastEdit.before # Null
   /\ TripletConversion(lastEdit.before.subdivision, lastEdit.subdivision))
    => \A t \in 0..17 :
         LET old == lastEdit.before.tracks[t]
             new == currentPattern.tracks[t]
             from == lastEdit.before.subdivision
             to == lastEdit.subdivision
         IN /\ FirstWriterWins(old, new, from, to, currentPattern.bars)
            /\ \A i \in DOMAIN old.steps :
                 old.steps[i].active =>
                   /\ newIndexOf(i, from, to) \in DOMAIN new.steps
                   /\ new.steps[newIndexOf(i, from, to)].active

(* C15: in a triplet conversion an active old step i whose index
   round((i / oldStepsPerBeat) * newStepsPerBeat) lies within the new track
   is mapped to it and one whose index equals the new step count is dropped;
   collisions keep the lowest old index with its finger; the tracks have the
   new step count. *)
C15_TimeBasedMapping ==
  (/\ lastEdit.op = "setSubdivision"
   /\ lastEdit.before # Null
   /\ TripletConversion(lastEdit.before.subdivision, lastEdit.subdivision))
    => \A t \in 0..17 :
         LET old == lastEdit.before.tracks[t]
             new == currentPattern.tracks[t]
             from == lastEdit.before.subdivision
             to == lastEdit.subdivision
         IN /\ FirstWriterWins(old, new, from, to, currentPattern.bars)
            /\ \A i \in DOMAIN old.steps :
                 old.steps[i].active =>
                   newIndexOf(i, from, to) <= getTotalSteps(currentPattern.bars, to)

(* a triplet conversion has mapped two active steps of track 0 with
   different fingers to one new index and kept the lower one's finger *)
C15_Witness ==
  /\ lastEdit.op = "setSubdivision"
  /\ lastEdit.before # Null
  /\ TripletConversion(lastEdit.before.subdivision, lastEdit.subdivision)
  /\ \E n \in DOMAIN currentPattern.tracks[0].steps :
       LET src == sourcesOf(lastEdit.before.tracks[0], n,
                            lastEdit.before.subdivision, lastEdit.subdivision)
       IN /\ Cardinality(src) >= 2
          /\ \E i \in src : lastEdit.before.tracks[0].steps[i].finger
                               # lastEdit.before.tracks[0].steps[Min(src)].finger
          /\ currentPattern.tracks[0].steps[n].finger
               = lastEdit.before.tracks[0].steps[Min(src)].finger

(* C16: setBars keeps the steps below min(old length, new length) as they
   are, makes every added step inactive without finger and gives every track
   the new length; setBars to more bars followed by setBars back restores
   every step of every track. *)
C16_ResizeKeepsSteps ==
  /\ (lastEdit.op = "setBars" /\ lastEdit.before # Null) =>
       \A t \in 0..17 :
         LET old == lastEdit.before.tracks[t].steps
             new == currentPattern.tracks[t].steps
         IN /\ DOMAIN new =
                 0..(getTotalSteps(lastEdit.bars, currentPattern.subdivision) - 1)
            /\ \A i \in DOMAIN new :
                 IF i \in DOMAIN old THEN new[i] = old[i]
                 ELSE ~new[i].active /\ new[i].finger = undefinedFinger
  /\ (/\ lastEdit.op = "setBars"
      /\ lastEdit.prev.op = "setBars"
      /\ lastEdit.prev.before # Null
      /\ lastEdit.prev.bars > lastEdit.prev.before.bars
      /\ lastEdit.bars = lastEdit.prev.before.bars)
       => /\ currentPattern.bars = lastEdit.prev.before.bars
          /\ currentPattern.tracks = lastEdit.prev.before.tracks

(* a pattern with an active last step has been lengthened and shortened
   back *)
C16_Witness ==
  /\ lastEdit.op = "setBars"
  /\ lastEdit.prev.op = "setBars"
  /\ lastEdit.prev.before # Null
  /\ lastEdit.prev.bars > lastEdit.prev.before.bars
  /\ lastEdit.bars = lastEdit.prev.before.bars
  /\ Length(lastEdit.before.tracks[17].steps)
       > Length(currentPattern.tracks[17].steps)
  /\ currentPattern.tracks[17]
       .steps[Length(currentPattern.tracks[17].steps) - 1].active

(* Two patterns that differ at most in the step stepIndex of track
   trackIndex *)
SameButCell(p, q, trackIndex, stepIndex) ==
  /\ DOMAIN p = DOMAIN q
  /\ \A field \in DOMAIN q \ {"tracks"} : p[field] = q[field]
  /\ DOMAIN p.tracks = DOMAIN q.tracks
  /\ \A i \in DOMAIN q.tracks :
       /\ DOMAIN p.tracks[i] = DOMAIN q.tracks[i]
       /\ \A field \in DOMAIN q.tracks[i] \ {"steps"} :
            p.tracks[i][field] = q.tracks[i][field]
       /\ DOMAIN p.tracks[i].steps = DOMAIN q.tracks[i].steps
       /\ \A k \in DOMAIN q.tracks[i].steps :
            (i # trackIndex \/ k # stepIndex)
              => p.tracks[i].steps[k] = q.tracks[i].steps[k]

(* C22: toggleStep applied twice to an inactive cell of the grid returns it
   to active = false without finger and leaves the rest of the pattern as it
   was. *)
C22_ToggleTwice ==
  LET first == lastEdit.prev
      original == first.before
      t == lastEdit.trackIndex
      st == lastEdit.stepIndex
  IN ( /\ lastEdit.op = "toggleStep" /\ first.op = "toggleStep"
       /\ first.trackIndex = t /\ first.stepIndex = st
       /\ original # Null
       /\ ~original.tracks[t].steps[st].active )
       => /\ ~currentPattern.tracks[t].steps[st].active
          /\ currentPattern.tracks[t].steps[st].finger = undefinedFinger
          /\ lastEdit.before.tracks[t].steps[st].active
          /\ SameButCell(currentPattern, original, t, st)

(* the second toggleStep of a cell of the last track, on a pattern that has
   another active cell *)
C22_Witness ==
  /\ lastEdit.op = "toggleStep" /\ lastEdit.prev.op = "toggleStep"
  /\ lastEdit.trackIndex = 17 /\ lastEdit.prev.trackIndex = 17
  /\ lastEdit.stepIndex = 3 /\ lastEdit.prev.stepIndex = 3
  /\ lastEdit.prev.before # Null
  /\ ~lastEdit.prev.before.tracks[17].steps[3].active
  /\ lastEdit.prev.before.tracks[0].steps[0].active
  /\ ~currentPattern.tracks[17].steps[3].active

(* C23: updateStepFinger on an inactive step leaves the whole pattern as it
   was; on an active step it replaces that step's finger by the argument and
   changes nothing else. *)
C23_UpdateFingerFrame ==
  LET t == lastEdit.trackIndex
      st == lastEdit.stepIndex
      old == lastEdit.before
  IN (lastEdit.op = "updateStepFinger" /\ old # Null)
       => IF old.tracks[t].steps[st].active
          THEN /\ SameButCell(currentPattern, old, t, st)
               /\ currentPattern.tracks[t].steps[st].finger \in EditorFingers
               /\ \A field \in DOMAIN old.tracks[t].steps[st] \ {"finger"} :
                    currentPattern.tracks[t].steps[st][field]
                      = old.tracks[t].steps[st][field]
          ELSE /\ currentPattern = old
               /\ currentPattern.tracks[t].steps[st].finger = undefinedFinger

(* updateStepFinger has replaced the default finger of an active step, after
   an updateStepFinger on an inactive step *)
C23_Witness ==
  /\ lastEdit.op = "updateStepFinger" /\ lastEdit.before # Null
  /\ lastEdit.before.tracks[lastEdit.trackIndex].steps[lastEdit.stepIndex].active
  /\ currentPattern # lastEdit.before
  /\ lastEdit.prev.op = "updateStepFinger" /\ lastEdit.prev.before # Null
  /\ ~lastEdit.prev.before.tracks[lastEdit.prev.trackIndex]
         .steps[lastEdit.prev.stepIndex].active

(* C24: with no pattern loaded, setBars, setSubdivision, toggleStep,
   updateStepFinger and setPatternName leave currentPattern null, whatever
   their arguments. *)
C24_NoPatternNoEdit ==
  ( /\ lastEdit.op \in {"setBars", "setSubdivision", "toggleStep",
                         "updateStepFinger", "setPatternName"}
    /\ lastEdit.before = Null )
    => currentPattern = Null

(* toggleStep of a cell outside every grid after setBars, both with no
   pattern loaded *)
C24_Witness ==
  /\ lastEdit.op = "toggleStep" /\ lastEdit.stepIndex = 99
  /\ lastEdit.before = Null
  /\ lastEdit.prev.op = "setBars" /\ lastEdit.prev.before = Null
  /\ currentPattern = Null

(* C27: for bars 1..4 and every subdivision, createEmptyPattern replaces the
   current pattern by one of 18 tracks in pad order, each of
   bars * 4 * stepsPerBeat(subdivision) steps, all inactive and without
   finger, with bpm 120; bars is 1 and the subdivision '16n' when omitted. *)
C27_CreateEmptyPattern ==
  lastEdit.op = "createEmptyPattern"
    => LET bars == IF lastEdit.bars = 0 THEN 1 ELSE lastEdit.bars
           subdivision == IF lastEdit.subdivision = "none" THEN "16n"
                          ELSE lastEdit.subdivision
       IN /\ currentPattern # Null
          /\ currentPattern.bars = bars
          /\ currentPattern.subdivision = subdivision
          /\ currentPattern.bpm = 120
          /\ DOMAIN currentPattern.tracks = 0..17
          /\ \A t \in 0..17 :
               LET steps == currentPattern.tracks[t].steps
               IN /\ currentPattern.tracks[t].padId = PAD_IDS[t]
                  /\ \E count \in 1..192 :
                       /\ 2 * count = bars * 4 * getStepsPerBeatX2(subdivision)
                       /\ DOMAIN steps = 0..(count - 1)
                  /\ \A st \in DOMAIN steps :
                       ~steps[st].active /\ steps[st].finger = undefinedFinger

(* createEmptyPattern(name, 3, '4t') over a pattern that had an active step:
   18 steps a track *)
C27_Witness ==
  /\ lastEdit.op = "createEmptyPattern"
  /\ lastEdit.bars = 3 /\ lastEdit.subdivision = "4t"
  /\ lastEdit.before # Null
  /\ lastEdit.before.tracks[17].steps[11].active
  /\ Length(currentPattern.tracks[17].steps) = 18

(* C35: in a triplet conversion an active step disappears only when an
   earlier active step of its track rounds to the same new index; a track
   with an active step before the conversion has one after it. *)
C35_NoStepLostButByCollision ==
  (/\ lastEdit.op = "setSubdivision"
   /\ lastEdit.before # Null
   /\ TripletConversion(lastEdit.before.subdivision, lastEdit.subdivision))
    => \A t \in 0..17 :
         LET old == lastEdit.before.tracks[t]
             new == currentPattern.tracks[t]
             from == lastEdit.before.subdivision
             to == lastEdit.subdivision
         IN /\ \A i \in DOMAIN old.steps :
                 old.steps[i].active =>
                   \/ /\ newIndexOf(i, from, to) \in DOMAIN new.steps
                      /\ new.steps[newIndexOf(i, from, to)].active
                      /\ new.steps[newIndexOf(i, from, to)].finger
                           = old.steps[i].finger
                   \/ \E j \in DOMAIN old.steps :
                        /\ j < i
                        /\ old.steps[j].active
                        /\ newIndexOf(j, from, to) = newIndexOf(i, from, to)
            /\ (\E i \in DOMAIN old.steps : old.steps[i].active)
                 => \E n \in DOMAIN new.steps : new.steps[n].active

====
